---- MODULE Spec2Model ----
(***************************************************************************)
(* Model of the novel reasoning engine (src/src/arcft/novel_reasoning.py): *)
(* the five-stage solve_problem pipeline, the rule store with its JSON     *)
(* snapshot, and the two line-oriented response parsers.                   *)
(*                                                                         *)
(* Texts that the program inspects (splits, strips, searches) are          *)
(* sequences of one-character strings; texts it only passes along          *)
(* (problem, thoughts, hypotheses) are atoms.  A float is its value in     *)
(* hundredths (0.8 is 80).  An exception is a value: an operator that can  *)
(* raise returns a record with field exc.                                  *)
(***************************************************************************)
EXTENDS Integers, Sequences, FiniteSets, TLC

\* ------------------------------------------------------------------ bounds
\* Changes of the environment in one behaviour: a clock tick, the completion
\* service going down or coming back, the disk changing its status, the
\* snapshot file damaged or edited.
MaxEnvEvents == 2
\* Pipeline runs started in one behaviour.
MaxRuns == 1
\* Lines of a parser input drawn from the line libraries.
MaxLines == 3
\* Clock ticks in one second (strftime('%Y%m%d_%H%M%S') truncates to seconds).
TicksPerSecond == 2

\* Rows and columns of the grids that are serialised and parsed.
MaxSide == 2

\* Samples per example and examples of one evaluation.
MaxSamples == 4
MaxExamples == 2

\* Runs of one engine in a sequence of runs and clear_history calls.
MaxSequentialRuns == 2

\* Tasks of one test file.
MaxTasks == 2

\* ------------------------------------------------------------- str helpers
NL == "\n"
Whitespace == {" ", "\t", "\n", "\r"}

UpperToLower ==
  [c \in {"A", "C", "D", "E", "F", "G", "H", "I", "L", "M", "N", "O", "P", "R", "S", "T", "U", "V", "W", "Y"} |->
     CASE c = "A" -> "a" [] c = "C" -> "c" [] c = "D" -> "d" [] c = "E" -> "e"
       [] c = "F" -> "f" [] c = "G" -> "g" [] c = "H" -> "h" [] c = "I" -> "i"
       [] c = "L" -> "l" [] c = "M" -> "m" [] c = "N" -> "n" [] c = "O" -> "o"
       [] c = "P" -> "p" [] c = "R" -> "r" [] c = "S" -> "s" [] c = "T" -> "t"
       [] c = "U" -> "u" [] c = "V" -> "v" [] c = "W" -> "w" [] c = "Y" -> "y"]

\* The capital of a letter a label starts with.
UpperOf == [c \in {"d", "p", "c"} |-> CASE c = "d" -> "D" [] c = "p" -> "P" [] c = "c" -> "C"]

\* str.lower()
Lower(s) == [i \in 1..Len(s) |-> IF s[i] \in DOMAIN UpperToLower THEN UpperToLower[s[i]] ELSE s[i]]

RECURSIVE LStrip(_)
LStrip(s) == IF s # <<>> /\ Head(s) \in Whitespace THEN LStrip(Tail(s)) ELSE s

RECURSIVE RStrip(_)
RStrip(s) == IF s # <<>> /\ s[Len(s)] \in Whitespace THEN RStrip(SubSeq(s, 1, Len(s) - 1)) ELSE s

\* str.strip()
Strip(s) == RStrip(LStrip(s))

\* str.startswith(p)
StartsWith(s, p) == Len(s) >= Len(p) /\ SubSeq(s, 1, Len(p)) = p

\* p in s
Contains(s, p) == \E i \in 0..(Len(s) - Len(p)) : SubSeq(s, i + 1, i + Len(p)) = p

\* Index of the first occurrence of character c in s, 0 when there is none.
RECURSIVE FindChar(_, _, _)
FindChar(s, c, i) == IF i > Len(s) THEN 0 ELSE IF s[i] = c THEN i ELSE FindChar(s, c, i + 1)

\* s.split(c): the pieces between the occurrences of c (always at least one).
RECURSIVE Split(_, _)
Split(s, c) ==
  LET k == FindChar(s, c, 1)
  IN  IF k = 0 THEN <<s>>
      ELSE <<SubSeq(s, 1, k - 1)>> \o Split(SubSeq(s, k + 1, Len(s)), c)

\* c.join(parts)
RECURSIVE Join(_, _)
Join(parts, c) ==
  IF parts = <<>> THEN <<>>
  ELSE IF Len(parts) = 1 THEN parts[1]
  ELSE parts[1] \o <<c>> \o Join(Tail(parts), c)

\* line.split(':', 1)[1].strip() for a line that holds a colon.
AfterFirstColon(line) == Strip(SubSeq(line, FindChar(line, ":", 1) + 1, Len(line)))

DigitValue ==
  [c \in {"0", "1", "2", "3", "4", "5", "6", "7", "8", "9"} |->
     CASE c = "0" -> 0 [] c = "1" -> 1 [] c = "2" -> 2 [] c = "3" -> 3 [] c = "4" -> 4
       [] c = "5" -> 5 [] c = "6" -> 6 [] c = "7" -> 7 [] c = "8" -> 8 [] c = "9" -> 9]

AllDigits(s) == \A i \in 1..Len(s) : s[i] \in DOMAIN DigitValue

RECURSIVE DecimalValue(_)
DecimalValue(s) == IF s = <<>> THEN 0 ELSE 10 * DecimalValue(SubSeq(s, 1, Len(s) - 1)) + DigitValue[s[Len(s)]]

\* The fraction digits as hundredths (digits after the second are dropped:
\* the inputs of the model carry at most two).
FractionHundredths(s) ==
  IF s = <<>> THEN 0
  ELSE IF Len(s) = 1 THEN 10 * DigitValue[s[1]]
  ELSE 10 * DigitValue[s[1]] + DigitValue[s[2]]

\* float(s) on the decimal literals [sign] digits [. digits] | [sign] . digits,
\* surrounding whitespace ignored; anything else raises ValueError.  The
\* value is in hundredths.  Exponents, underscores, inf and nan are outside
\* the alphabet of the model's inputs.
float(s) ==
  LET t    == Strip(s)
      neg  == t # <<>> /\ Head(t) = "-"
      body == IF t # <<>> /\ Head(t) \in {"-", "+"} THEN Tail(t) ELSE t
      dot  == FindChar(body, ".", 1)
      ip   == IF dot = 0 THEN body ELSE SubSeq(body, 1, dot - 1)
      fp   == IF dot = 0 THEN <<>> ELSE SubSeq(body, dot + 1, Len(body))
      ok   == AllDigits(ip) /\ AllDigits(fp) /\ Len(ip) + Len(fp) >= 1
      mag  == 100 * DecimalValue(ip) + FractionHundredths(fp)
  IN  IF ok THEN [exc |-> "none", value |-> IF neg THEN 0 - mag ELSE mag]
      ELSE [exc |-> "ValueError", value |-> 0]

\* ------------------------------------------------------------------- time
\* datetime.now().strftime('%Y%m%d_%H%M%S'): the clock truncated to seconds.
strftime_seconds(t) == t \div TicksPerSecond

\* datetime.now().isoformat(): the clock at full resolution ('' is <<>>).
isoformat(t) == <<t>>

\* ------------------------------------------------------------------- Rule
RuleFields == {"rule_id", "description", "pattern", "confidence", "usage_count",
               "created_at", "last_used", "success_rate"}

EmptyDict == [k \in {} |-> 0]

\* d[k] = v on a dict
SetItem(d, k, v) == [x \in (DOMAIN d) \cup {k} |-> IF x = k THEN v ELSE d[x]]

\* A constructor that filled in absent fields and dropped unknown ones.
RuleFromDict_lenient(d) ==
  [exc |-> "none",
   rule |-> [k \in RuleFields |-> IF k \in DOMAIN d THEN d[k] ELSE <<>>]]

\* Rule(**d): the dataclass constructor takes exactly its eight fields by
\* keyword; a missing or an unexpected keyword is a TypeError.
RuleFromDict(d) ==
  IF DOMAIN d = RuleFields THEN [exc |-> "none", rule |-> d]
  ELSE [exc |-> "TypeError", rule |-> EmptyDict]

\* A marker test that forgot the fourth marker.
IsMarker_three(line) ==
  \/ StartsWith(line, <<"1", ".">>)
  \/ StartsWith(line, <<"2", ".">>)
  \/ StartsWith(line, <<"3", ".">>)

\* A marker test that took a fifth enumerator for a marker too.
IsMarker_five(line) ==
  \/ StartsWith(line, <<"1", ".">>)
  \/ StartsWith(line, <<"2", ".">>)
  \/ StartsWith(line, <<"3", ".">>)
  \/ StartsWith(line, <<"4", ".">>)
  \/ StartsWith(line, <<"5", ".">>)

\* if line.startswith(('1.', '2.', '3.', '4.'))
IsMarker(line) ==
  \/ StartsWith(line, <<"1", ".">>)
  \/ StartsWith(line, <<"2", ".">>)
  \/ StartsWith(line, <<"3", ".">>)
  \/ StartsWith(line, <<"4", ".">>)

\* The dict a marker line opens; rule_id is f"rule_{len(rules)}_{seconds}".
NewRuleDict(n, t) ==
  [rule_id |-> <<"rule", n, strftime_seconds(t)>>,
   description |-> <<>>,
   pattern |-> <<>>,
   confidence |-> 80,
   usage_count |-> 1,
   created_at |-> <<>>,
   last_used |-> <<>>,
   success_rate |-> 80]

\* A chain that tested the labels in the opposite order.
RuleFieldLine_confidence_first(cur, line) ==
  LET low == Lower(line)
  IN  IF Contains(low, <<"c", "o", "n", "f", "i", "d", "e", "n", "c", "e", ":">>)
        THEN LET f == float(AfterFirstColon(line))
             IN  IF f.exc = "none" THEN SetItem(cur, "confidence", f.value) ELSE cur
      ELSE IF Contains(low, <<"p", "a", "t", "t", "e", "r", "n", ":">>) \/ Contains(low, <<"r", "u", "l", "e", ":">>)
        THEN SetItem(cur, "pattern", AfterFirstColon(line))
      ELSE IF Contains(low, <<"d", "e", "s", "c", "r", "i", "p", "t", "i", "o", "n", ":">>)
        THEN SetItem(cur, "description", AfterFirstColon(line))
      ELSE cur

\* One non-marker line folded into current_rule (the elif chain).
RuleFieldLine(cur, line) ==
  LET low == Lower(line)
  IN  IF Contains(low, <<"d", "e", "s", "c", "r", "i", "p", "t", "i", "o", "n", ":">>)
        THEN SetItem(cur, "description", AfterFirstColon(line))
      ELSE IF Contains(low, <<"p", "a", "t", "t", "e", "r", "n", ":">>) \/ Contains(low, <<"r", "u", "l", "e", ":">>)
        THEN SetItem(cur, "pattern", AfterFirstColon(line))
      ELSE IF Contains(low, <<"c", "o", "n", "f", "i", "d", "e", "n", "c", "e", ":">>)
        THEN LET f == float(AfterFirstColon(line))
             IN  IF f.exc = "none" THEN SetItem(cur, "confidence", f.value) ELSE cur
      ELSE cur

\* The loop of _parse_rules_from_response from line i on, then the final
\* append.  A Rule(**current_rule) that raises ends the parse with the
\* exception.
RECURSIVE ParseRuleLines(_, _, _, _, _)
ParseRuleLines(lines, i, cur, rules, t) ==
  IF i > Len(lines)
    THEN IF DOMAIN cur # {}
           THEN LET made == RuleFromDict(cur)
                IN  IF made.exc = "none"
                      THEN [exc |-> "none", rules |-> Append(rules, made.rule)]
                      ELSE [exc |-> made.exc, rules |-> <<>>]
           ELSE [exc |-> "none", rules |-> rules]
  ELSE LET line == Strip(lines[i])
       IN  IF IsMarker(line)
             THEN IF DOMAIN cur # {}
                    THEN LET made == RuleFromDict(cur)
                         IN  IF made.exc = "none"
                               THEN ParseRuleLines(lines, i + 1,
                                      NewRuleDict(Len(rules) + 1, t),
                                      Append(rules, made.rule), t)
                               ELSE [exc |-> made.exc, rules |-> <<>>]
                    ELSE ParseRuleLines(lines, i + 1, NewRuleDict(Len(rules), t), rules, t)
             ELSE ParseRuleLines(lines, i + 1, RuleFieldLine(cur, line), rules, t)

\* _parse_rules_from_response(response) with the clock at t.
parse_rules_from_response(response, t) ==
  ParseRuleLines(Split(response, NL), 1, EmptyDict, <<>>, t)

\* ------------------------------------------------------------- DualAnswer
DualDefaults ==
  [primary_answer |-> <<"P", "r", "i", "m", "a", "r", "y", " ", "a", "n", "s", "w", "e", "r", " ", "n", "o", "t", " ", "f", "o", "u", "n", "d">>,
   alternative_answer |-> <<"A", "l", "t", "e", "r", "n", "a", "t", "i", "v", "e", " ", "a", "n", "s", "w", "e", "r", " ", "n", "o", "t", " ", "f", "o", "u", "n", "d">>,
   primary_confidence |-> 80,
   alternative_confidence |-> 70,
   reasoning_comparison |-> <<"R", "e", "a", "s", "o", "n", "i", "n", "g", " ", "c", "o", "m", "p", "a", "r", "i", "s", "o", "n", " ", "n", "o", "t", " ", "f", "o", "u", "n", "d">>,
   recommended_answer |-> <<"R", "e", "c", "o", "m", "m", "e", "n", "d", "e", "d", " ", "a", "n", "s", "w", "e", "r", " ", "n", "o", "t", " ", "f", "o", "u", "n", "d">>]

\* A chain that looked for the labels in the line as written.
DualLabelOf_as_written(line) ==
  IF Contains(line, <<"p", "r", "i", "m", "a", "r", "y", " ", "a", "n", "s", "w", "e", "r", ":">>) THEN "primary_answer"
  ELSE IF Contains(line, <<"a", "l", "t", "e", "r", "n", "a", "t", "i", "v", "e", " ", "a", "n", "s", "w", "e", "r", ":">>) THEN "alternative_answer"
  ELSE IF Contains(line, <<"p", "r", "i", "m", "a", "r", "y", " ", "c", "o", "n", "f", "i", "d", "e", "n", "c", "e", ":">>) THEN "primary_confidence"
  ELSE IF Contains(line, <<"a", "l", "t", "e", "r", "n", "a", "t", "i", "v", "e", " ", "c", "o", "n", "f", "i", "d", "e", "n", "c", "e", ":">>) THEN "alternative_confidence"
  ELSE IF Contains(line, <<"r", "e", "a", "s", "o", "n", "i", "n", "g", " ", "c", "o", "m", "p", "a", "r", "i", "s", "o", "n", ":">>) THEN "reasoning_comparison"
  ELSE IF Contains(line, <<"r", "e", "c", "o", "m", "m", "e", "n", "d", "e", "d", " ", "a", "n", "s", "w", "e", "r", ":">>) THEN "recommended_answer"
  ELSE "none"

\* The branch of the elif chain a (stripped) line takes, "none" when no
\* label occurs in it.
DualLabelOf(line) ==
  LET low == Lower(line)
  IN  IF Contains(low, <<"p", "r", "i", "m", "a", "r", "y", " ", "a", "n", "s", "w", "e", "r", ":">>) THEN "primary_answer"
      ELSE IF Contains(low, <<"a", "l", "t", "e", "r", "n", "a", "t", "i", "v", "e", " ", "a", "n", "s", "w", "e", "r", ":">>) THEN "alternative_answer"
      ELSE IF Contains(low, <<"p", "r", "i", "m", "a", "r", "y", " ", "c", "o", "n", "f", "i", "d", "e", "n", "c", "e", ":">>) THEN "primary_confidence"
      ELSE IF Contains(low, <<"a", "l", "t", "e", "r", "n", "a", "t", "i", "v", "e", " ", "c", "o", "n", "f", "i", "d", "e", "n", "c", "e", ":">>) THEN "alternative_confidence"
      ELSE IF Contains(low, <<"r", "e", "a", "s", "o", "n", "i", "n", "g", " ", "c", "o", "m", "p", "a", "r", "i", "s", "o", "n", ":">>) THEN "reasoning_comparison"
      ELSE IF Contains(low, <<"r", "e", "c", "o", "m", "m", "e", "n", "d", "e", "d", " ", "a", "n", "s", "w", "e", "r", ":">>) THEN "recommended_answer"
      ELSE "none"

IsConfidenceField(k) == k \in {"primary_confidence", "alternative_confidence"}

\* A fold in which a confidence that does not parse falls back to zero.
DualLine_zero(acc, rawline) ==
  LET line == Strip(rawline)
      k    == DualLabelOf(line)
  IN  IF k = "none" THEN acc
      ELSE IF IsConfidenceField(k)
        THEN LET f == float(AfterFirstColon(line))
             IN  [acc EXCEPT ![k] = IF f.exc = "none" THEN f.value ELSE 0]
      ELSE [acc EXCEPT ![k] = AfterFirstColon(line)]

\* One line folded into the running six values.
DualLine(acc, rawline) ==
  LET line == Strip(rawline)
      k    == DualLabelOf(line)
  IN  IF k = "none" THEN acc
      ELSE IF IsConfidenceField(k)
        THEN LET f == float(AfterFirstColon(line))
             IN  IF f.exc = "none" THEN [acc EXCEPT ![k] = f.value] ELSE acc
      ELSE [acc EXCEPT ![k] = AfterFirstColon(line)]

RECURSIVE ParseDualLines(_, _, _)
ParseDualLines(lines, i, acc) ==
  IF i > Len(lines) THEN acc ELSE ParseDualLines(lines, i + 1, DualLine(acc, lines[i]))

\* _parse_dual_answers_from_response(response)
parse_dual_answers_from_response(response) ==
  [exc |-> "none", value |-> ParseDualLines(Split(response, NL), 1, DualDefaults)]

\* ------------------------------------------------------- the rule snapshot
\* The snapshot file holds JSON text, modelled as its sequence of tokens:
\* <<"[">>, <<"]">>, <<"{">>, <<"}">>, <<"key", name>>, <<"str", s>>,
\* <<"num", n>> (commas, colons and indentation are not kept).
RuleFieldOrder == <<"rule_id", "description", "pattern", "confidence", "usage_count",
                    "created_at", "last_used", "success_rate">>

JsonType(field) == IF field \in {"confidence", "usage_count", "success_rate"} THEN "num" ELSE "str"

\* asdict(rule) written as one JSON object, fields in dataclass order.
RECURSIVE DumpFields(_, _)
DumpFields(rule, i) ==
  IF i > Len(RuleFieldOrder) THEN <<>>
  ELSE LET k == RuleFieldOrder[i]
       IN  <<(<<"key", k>>), (<<JsonType(k), rule[k]>>)>> \o DumpFields(rule, i + 1)

\* A dump that lost the last field of each record.
DumpRule_short(rule) ==
  <<(<<"{">>)>> \o SubSeq(DumpFields(rule, 1), 1, 2 * Len(RuleFieldOrder) - 2) \o <<(<<"}">>)>>

DumpRule(rule) == <<(<<"{">>)>> \o DumpFields(rule, 1) \o <<(<<"}">>)>>

RECURSIVE DumpRules(_)
DumpRules(rs) == IF rs = <<>> THEN <<>> ELSE DumpRule(Head(rs)) \o DumpRules(Tail(rs))

\* json.dump([asdict(rule) for rule in self.rules], f, indent=2)
json_dump(rs) == <<(<<"[">>)>> \o DumpRules(rs) \o <<(<<"]">>)>>

IsScalarToken(tok) == tok[1] \in {"str", "num"}

\* The members of an object from token i on, up to its "}".
RECURSIVE LoadMembers(_, _, _)
LoadMembers(toks, i, d) ==
  IF i > Len(toks) THEN [exc |-> "JSONDecodeError", value |-> EmptyDict, next |-> i]
  ELSE IF toks[i][1] = "}" THEN [exc |-> "none", value |-> d, next |-> i + 1]
  ELSE IF toks[i][1] = "key" /\ i + 1 <= Len(toks) /\ IsScalarToken(toks[i + 1])
    THEN LoadMembers(toks, i + 2, SetItem(d, toks[i][2], toks[i + 1][2]))
  ELSE [exc |-> "JSONDecodeError", value |-> EmptyDict, next |-> i]

\* The elements of an array from token i on, up to its "]", which must end
\* the text.  An element is [kind |-> "object", value |-> dict] or
\* [kind |-> "scalar", value |-> EmptyDict].
RECURSIVE LoadElements(_, _, _)
LoadElements(toks, i, acc) ==
  IF i > Len(toks) THEN [exc |-> "JSONDecodeError", value |-> <<>>]
  ELSE IF toks[i][1] = "]"
    THEN IF i = Len(toks) THEN [exc |-> "none", value |-> acc]
         ELSE [exc |-> "JSONDecodeError", value |-> <<>>]
  ELSE IF toks[i][1] = "{"
    THEN LET m == LoadMembers(toks, i + 1, EmptyDict)
         IN  IF m.exc = "none"
               THEN LoadElements(toks, m.next, Append(acc, [kind |-> "object", value |-> m.value]))
               ELSE [exc |-> m.exc, value |-> <<>>]
  ELSE IF IsScalarToken(toks[i])
    THEN LoadElements(toks, i + 1, Append(acc, [kind |-> "scalar", value |-> EmptyDict]))
  ELSE [exc |-> "JSONDecodeError", value |-> <<>>]

\* json.load(f): a list of elements, or a top-level number (kind "scalar");
\* text that is no JSON document raises.
json_load(toks) ==
  IF toks = <<>> THEN [exc |-> "JSONDecodeError", kind |-> "none", value |-> <<>>]
  ELSE IF toks[1][1] = "[" THEN
    LET l == LoadElements(toks, 2, <<>>)
    IN  [exc |-> l.exc, kind |-> "list", value |-> l.value]
  ELSE IF toks[1][1] = "num" /\ Len(toks) = 1 THEN [exc |-> "none", kind |-> "scalar", value |-> <<>>]
  ELSE [exc |-> "JSONDecodeError", kind |-> "none", value |-> <<>>]

\* [Rule(**rule) for rule in rules_data]: the list is built whole or the
\* first failing element raises.
RECURSIVE RulesFromData(_, _, _)
RulesFromData(items, i, acc) ==
  IF i > Len(items) THEN [exc |-> "none", value |-> acc]
  ELSE IF items[i].kind # "object" THEN [exc |-> "TypeError", value |-> <<>>]
  ELSE LET made == RuleFromDict(items[i].value)
       IN  IF made.exc = "none" THEN RulesFromData(items, i + 1, Append(acc, made.rule))
           ELSE [exc |-> made.exc, value |-> <<>>]

\* The snapshot file: whether it exists and its tokens.
NoFile == [exists |-> FALSE, text |-> <<>>]
FileOf(toks) == [exists |-> TRUE, text |-> toks]

\* _load_existing_rules on a store that holds `current` (the empty list set
\* by __init__), the disk in status disk (open fails when access is denied).
\* Returns the rules of the store afterwards and what was logged ("Loaded
\* {count} existing rules", "Could not load existing rules", or nothing when
\* the file is absent).
load_existing_rules(current, file, disk) ==
  LET failed == [exc |-> "none", rules |-> current, log |-> [msg |-> "could_not_load", count |-> 0]]
  IN  IF ~file.exists THEN [exc |-> "none", rules |-> current, log |-> [msg |-> "absent", count |-> 0]]
      ELSE IF disk = "denied" THEN failed
      ELSE LET data == json_load(file.text)
           IN  IF data.exc # "none" THEN failed
               ELSE IF data.kind # "list" THEN failed
               ELSE LET made == RulesFromData(data.value, 1, <<>>)
                    IN  IF made.exc = "none"
                          THEN [exc |-> "none", rules |-> made.value,
                                log |-> [msg |-> "loaded", count |-> Len(made.value)]]
                          ELSE failed

\* A save that left the file alone when the store held no rule.
save_rules_when_any(rs, file, disk) ==
  LET text == json_dump(rs)
  IN  CASE disk = "ok" -> [exc |-> "none", file |-> IF rs = <<>> THEN file ELSE FileOf(text),
                           log |-> "saved"]
        [] disk = "denied" -> [exc |-> "none", file |-> file, log |-> "could_not_save"]
        [] disk = "full" ->
             [exc |-> "none", file |-> FileOf(SubSeq(text, 1, Len(text) \div 2)),
              log |-> "could_not_save"]

\* A save that kept what the file held and wrote the store after it.
save_rules_after_file(rs, file, disk) ==
  LET text == json_dump(load_existing_rules(<<>>, file, disk).rules \o rs)
  IN  CASE disk = "ok" -> [exc |-> "none", file |-> FileOf(text), log |-> "saved"]
        [] disk = "denied" -> [exc |-> "none", file |-> file, log |-> "could_not_save"]
        [] disk = "full" ->
             [exc |-> "none", file |-> FileOf(SubSeq(text, 1, Len(text) \div 2)),
              log |-> "could_not_save"]

\* _save_rules with the disk in status disk: open(file, 'w') truncates the
\* file and json.dump writes it.  When open fails the file stays as it was;
\* when the disk is full a prefix of the text is left.  Returns the file
\* afterwards and what was logged.
save_rules(rs, file, disk) ==
  LET text == json_dump(rs)
  IN  CASE disk = "ok" -> [exc |-> "none", file |-> FileOf(text), log |-> "saved"]
        [] disk = "denied" -> [exc |-> "none", file |-> file, log |-> "could_not_save"]
        [] disk = "full" ->
             [exc |-> "none", file |-> FileOf(SubSeq(text, 1, Len(text) \div 2)),
              log |-> "could_not_save"]

\* ---------------------------------------------------- the pipeline stages
\* The registry of _initialize_philosophical_characters, in dict order.
Characters == <<"socrates", "aristotle", "descartes", "kant", "nietzsche">>

CharacterName ==
  [socrates |-> "Socrates", aristotle |-> "Aristotle", descartes |-> "Rene Descartes",
   kant |-> "Immanuel Kant", nietzsche |-> "Friedrich Nietzsche"]

\* str(e) of the exception a failing completion call raises, as an atom and
\* as characters.
ExceptionText == "Connection error."
ExceptionChars == <<"C", "o", "n", "n", "e", "c", "t", "i", "o", "n", " ", "e", "r", "r", "o", "r", ".">>

\* What the completion service can answer at each stage (already stripped
\* where the text is an atom).
ThoughtResponses == {"analysis"}
HypothesisResponses == {"hypotheses"}
SimulationResponses ==
  {<<"o", "n", "l", "y", " ", "o", "n", "e", " ", "l", "i", "n", "e">>,
   <<" ", "o", "n", "e", "\n", "\n", "t", "w", "o", "\n", "t", "h", "r", "e", "e", " ", "\n">>}
DualResponses ==
  {<<"P", "r", "i", "m", "a", "r", "y", " ", "A", "n", "s", "w", "e", "r", ":", " ", "4", "2", "\n", "A", "l", "t", "e", "r", "n", "a", "t", "i", "v", "e", " ", "A", "n", "s", "w", "e", "r", ":", " ", "4", "1", "\n", "P", "r", "i", "m", "a", "r", "y", " ", "C", "o", "n", "f", "i", "d", "e", "n", "c", "e", ":", " ", "0", ".", "9", "\n", "A", "l", "t", "e", "r", "n", "a", "t", "i", "v", "e", " ", "C", "o", "n", "f", "i", "d", "e", "n", "c", "e", ":", " ", "0", ".", "4", "\n", "R", "e", "a", "s", "o", "n", "i", "n", "g", " ", "C", "o", "m", "p", "a", "r", "i", "s", "o", "n", ":", " ", "s", "a", "m", "e", "\n", "R", "e", "c", "o", "m", "m", "e", "n", "d", "e", "d", " ", "A", "n", "s", "w", "e", "r", ":", " ", "4", "2">>,
   <<"I", " ", "c", "a", "n", "n", "o", "t", " ", "d", "e", "c", "i", "d", "e", ".">>}
RuleResponses ==
  {<<"1", ".", " ", "A", "\n", "D", "e", "s", "c", "r", "i", "p", "t", "i", "o", "n", ":", " ", "r", "o", "w", "s", "\n", "P", "a", "t", "t", "e", "r", "n", ":", " ", "f", "l", "i", "p", "\n", "C", "o", "n", "f", "i", "d", "e", "n", "c", "e", ":", " ", "0", ".", "9", "\n", "2", ".", " ", "B", "\n", "D", "e", "s", "c", "r", "i", "p", "t", "i", "o", "n", ":", " ", "s", "u", "m", "\n", "R", "u", "l", "e", ":", " ", "a", "d", "d", "\n", "C", "o", "n", "f", "i", "d", "e", "n", "c", "e", ":", " ", "h", "i", "g", "h">>,
   <<"D", "e", "s", "c", "r", "i", "p", "t", "i", "o", "n", ":", " ", "e", "a", "r", "l", "y", "\n", "1", ".", " ", "L", "a", "t", "e", "\n", "P", "a", "t", "t", "e", "r", "n", ":", " ", "p">>}

\* _generate_character_thought once the call has ended with outcome out.
generate_character_thought(character, out) ==
  IF out.exc = "none" THEN [exc |-> "none", value |-> out.content]
  ELSE [exc |-> "none",
        value |-> "Error in " \o CharacterName[character] \o "'s analysis: " \o ExceptionText]

\* _generate_hypothesis once the call has ended with outcome out.
generate_hypothesis(out) ==
  IF out.exc = "none" THEN [exc |-> "none", value |-> out.content]
  ELSE [exc |-> "none", value |-> "Error generating hypotheses: " \o ExceptionText]

\* A split that gave the middle line of an odd count to the first half.
SplitApproaches_ceil(response) ==
  LET content   == Strip(response)
      lines     == Split(content, NL)
      mid_point == (Len(lines) + 1) \div 2
  IN  <<Join(SubSeq(lines, 1, mid_point), NL),
        Join(SubSeq(lines, mid_point + 1, Len(lines)), NL)>>

\* The two halves of the stripped response, split by line count.
SplitApproaches(response) ==
  LET content   == Strip(response)
      lines     == Split(content, NL)
      mid_point == Len(lines) \div 2
  IN  <<Join(SubSeq(lines, 1, mid_point), NL),
        Join(SubSeq(lines, mid_point + 1, Len(lines)), NL)>>

\* _simulate_future_answers once the call has ended with outcome out.
simulate_future_answers(out) ==
  IF out.exc = "none" THEN [exc |-> "none", value |-> SplitApproaches(out.content)]
  ELSE [exc |-> "none",
        value |-> <<<<"E", "r", "r", "o", "r", " ", "i", "n", " ", "a", "p", "p", "r", "o", "a", "c", "h", " ", "1", ":", " ">> \o ExceptionChars,
                    <<"E", "r", "r", "o", "r", " ", "i", "n", " ", "a", "p", "p", "r", "o", "a", "c", "h", " ", "2", ":", " ">> \o ExceptionChars>>]

\* The DualAnswer fabricated when stage 4 fails.
DualAnswerOnError ==
  [primary_answer |-> <<"E", "r", "r", "o", "r", " ", "g", "e", "n", "e", "r", "a", "t", "i", "n", "g", " ", "p", "r", "i", "m", "a", "r", "y", " ", "a", "n", "s", "w", "e", "r">>,
   alternative_answer |-> <<"E", "r", "r", "o", "r", " ", "g", "e", "n", "e", "r", "a", "t", "i", "n", "g", " ", "a", "l", "t", "e", "r", "n", "a", "t", "i", "v", "e", " ", "a", "n", "s", "w", "e", "r">>,
   primary_confidence |-> 0,
   alternative_confidence |-> 0,
   reasoning_comparison |-> <<"E", "r", "r", "o", "r", " ", "i", "n", " ", "d", "u", "a", "l", " ", "a", "n", "s", "w", "e", "r", " ", "g", "e", "n", "e", "r", "a", "t", "i", "o", "n">>,
   recommended_answer |-> <<"E", "r", "r", "o", "r">>]

\* A stage 4 that answered a failed call with the parser's placeholders.
generate_dual_answers_placeholders(out) ==
  IF out.exc = "none"
    THEN LET parsed == parse_dual_answers_from_response(Strip(out.content))
         IN  [exc |-> "none", value |-> parsed.value]
  ELSE [exc |-> "none", value |-> DualDefaults]

\* _generate_dual_answers once the call has ended with outcome out.
generate_dual_answers(out) ==
  IF out.exc = "none"
    THEN LET parsed == parse_dual_answers_from_response(Strip(out.content))
         IN  IF parsed.exc = "none" THEN [exc |-> "none", value |-> parsed.value]
             ELSE [exc |-> "none", value |-> DualAnswerOnError]
  ELSE [exc |-> "none", value |-> DualAnswerOnError]

\* The metadata _abstract_rules stamps on each parsed rule.
RECURSIVE StampRules(_, _)
StampRules(rs, t) ==
  IF rs = <<>> THEN <<>>
  ELSE <<[Head(rs) EXCEPT !.created_at = isoformat(t), !.last_used = isoformat(t),
                          !.usage_count = 1, !.success_rate = 80]>>
       \o StampRules(Tail(rs), t)

\* A stage 5 without its try block: what the parser raises reaches the caller.
abstract_rules_unguarded(out, t) ==
  IF out.exc = "none"
    THEN LET parsed == parse_rules_from_response(Strip(out.content), t)
         IN  [exc |-> parsed.exc, value |-> StampRules(parsed.rules, t)]
  ELSE [exc |-> out.exc, value |-> <<>>]

\* _abstract_rules once the call has ended with outcome out, the clock at t.
abstract_rules(out, t) ==
  IF out.exc = "none"
    THEN LET parsed == parse_rules_from_response(Strip(out.content), t)
         IN  IF parsed.exc = "none" THEN [exc |-> "none", value |-> StampRules(parsed.rules, t)]
             ELSE [exc |-> "none", value |-> <<>>]
  ELSE [exc |-> "none", value |-> <<>>]

\* self.rules.extend(new_rules) done at the wrong end of the list.
extend_front(rs, new_rules) == new_rules \o rs

\* self.rules.extend(new_rules)
extend(rs, new_rules) == rs \o new_rules

\* An order of stages in which a failed stage 3 ends the reasoning early.
NextStage_skip(stage) ==
  CASE stage = "perspectives" -> "hypotheses"
    [] stage = "hypotheses" -> "simulate"
    [] stage = "simulate" -> "rules"
    [] stage = "dual" -> "rules"
    [] stage = "rules" -> "returned"

\* The order of the stages in solve_problem.
NextStage(stage) ==
  CASE stage = "perspectives" -> "hypotheses"
    [] stage = "hypotheses" -> "simulate"
    [] stage = "simulate" -> "dual"
    [] stage = "dual" -> "rules"
    [] stage = "rules" -> "returned"

\* A result that counted the thoughts of the run as its reasoning steps.
RunResult_counting_thoughts(fr, dual_answer, new_rules, all_rules, history, t) ==
  [problem |-> fr.problem,
   context |-> fr.context,
   timestamp |-> isoformat(t),
   character_thoughts |-> fr.character_thoughts,
   hypotheses |-> fr.hypotheses,
   dual_answers |-> dual_answer,
   new_rules_learned |-> Len(new_rules),
   total_rules |-> Len(all_rules),
   reasoning_steps |-> Len(fr.character_thoughts)]

\* The dict solve_problem returns.
RunResult(fr, dual_answer, new_rules, all_rules, history, t) ==
  [problem |-> fr.problem,
   context |-> fr.context,
   timestamp |-> isoformat(t),
   character_thoughts |-> fr.character_thoughts,
   hypotheses |-> fr.hypotheses,
   dual_answers |-> dual_answer,
   new_rules_learned |-> Len(new_rules),
   total_rules |-> Len(all_rules),
   reasoning_steps |-> Len(history)]

\* ------------------------------------------------------------------ state
Engines == {1, 2}
Runs == {1}
Problems == {"problem"}

VARIABLES
  now,                \* the wall clock, in ticks
  service,            \* "up" or "down": whether completion calls answer or raise
  disk,               \* "ok", "denied" (open fails) or "full" (writes fail)
  events,             \* changes of the environment so far
  started,            \* pipeline runs started so far
  snapshot,           \* the file learned_rules.json
  last_saved,         \* the rule list the file was last written from in full
  constructed,        \* constructed[e]: engine e exists
  rules,              \* rules[e]: self.rules
  reasoning_history,  \* reasoning_history[e]: self.reasoning_history
  load_log,           \* load_log[e]: what _load_existing_rules logged
  frame,              \* frame[r]: the locals of one solve_problem call
  input,              \* the argument of a parser applied on its own
  output,             \* what it returned
  issued,             \* issued[e]: the step_ids engine e has given out, in order
  eval,               \* the locals of the evaluation command main
  runner              \* the locals of ARCTestRunner.run_tests

vars == <<now, service, disk, events, started, snapshot, last_saved, constructed, rules,
          reasoning_history, load_log, frame, input, output, issued, eval, runner>>

fileVars == <<snapshot, last_saved>>
engineVars == <<constructed, rules, reasoning_history, load_log>>
parserVars == <<input, output>>

NotRun == [exc |-> "not run"]

\* Python's None and a grid, as parse_grid returns them.
None == [none |-> TRUE, grid |-> <<>>]
Some(g) == [none |-> FALSE, grid |-> g]

\* main before it is invoked.
EvalIdle ==
  [pc |-> "idle", samples |-> 0, examples |-> <<>>, position |-> 0, texts |-> <<>>,
   parsed |-> <<>>, pred |-> None, stats |-> [total |-> 0, correct |-> 0]]

\* run_tests before it is invoked.
RunnerIdle ==
  [pc |-> "idle", test_data |-> <<>>, max_tasks |-> 0, tasks |-> <<>>, position |-> 0,
   results |-> <<>>, elapsed |-> 0, statistics |-> EmptyDict]

NotSaved == [whole |-> FALSE, rules |-> <<>>]
SavedFrom(rs) == [whole |-> TRUE, rules |-> rs]
NoLog == [msg |-> "none", count |-> 0]

IdleFrame ==
  [pc |-> "idle", engine |-> 0, problem |-> "", context |-> "", next_char |-> 1,
   character_thoughts |-> <<>>, hypotheses |-> "", approaches |-> <<>>,
   dual_answer |-> EmptyDict, new_rules |-> <<>>, calls |-> <<>>, result |-> EmptyDict,
   rules_at_start |-> <<>>, steps_at_start |-> 0, save_log |-> "none"]

AllIdle == \A r \in Runs : frame[r].pc = "idle"

\* The outcomes of one completion call: an answer from the set, or the
\* exception when the service is down.
CallOutcomes(responses) ==
  IF service = "up" THEN {[exc |-> "none", content |-> c] : c \in responses}
  ELSE {[exc |-> "APIError", content |-> <<>>]}

\* A rule as an earlier process would have saved it.
SeedRule ==
  [rule_id |-> <<"rule", 0, 0>>, description |-> <<"s", "e", "e", "d">>, pattern |-> <<"s">>,
   confidence |-> 80, usage_count |-> 1, created_at |-> isoformat(0),
   last_used |-> isoformat(0), success_rate |-> 80]

\* learned_rules.json when the process starts: absent, or saved earlier.
InitialSnapshots ==
  {[file |-> NoFile, from |-> NotSaved],
   [file |-> save_rules(<<SeedRule>>, NoFile, "ok").file, from |-> SavedFrom(<<SeedRule>>)]}

\* learned_rules.json after damage or an edit: a complete record followed by
\* one lacking fields, a record with an unknown field, a number in place of
\* the list.
DamagedSnapshots ==
  {FileOf(SubSeq(json_dump(<<SeedRule>>), 1, Len(json_dump(<<SeedRule>>)) - 1)
            \o <<(<<"{">>), (<<"key", "rule_id">>), (<<"str", <<"rule", 1, 0>>>>),
                 (<<"}">>), (<<"]">>)>>),
   FileOf(SubSeq(json_dump(<<SeedRule>>), 1, Len(json_dump(<<SeedRule>>)) - 2)
            \o <<(<<"key", "notes">>), (<<"str", <<"x">>>>), (<<"}">>), (<<"]">>)>>),
   FileOf(<<(<<"num", 5>>)>>)}

Init ==
  /\ now = 0
  /\ service = "up"
  /\ disk = "ok"
  /\ events = 0
  /\ started = 0
  /\ \E known \in InitialSnapshots :
       /\ snapshot = known.file
       /\ last_saved = known.from
  /\ constructed = [e \in Engines |-> FALSE]
  /\ rules = [e \in Engines |-> <<>>]
  /\ reasoning_history = [e \in Engines |-> <<>>]
  /\ load_log = [e \in Engines |-> NoLog]
  /\ frame = [r \in Runs |-> IdleFrame]
  /\ input = <<>>
  /\ output = NotRun
  /\ issued = [e \in Engines |-> <<>>]
  /\ eval = EvalIdle
  /\ runner = RunnerIdle

\* ---------------------------------------------------------------- actions
\* The clock advances (between calls of the engine).
Tick ==
  /\ events < MaxEnvEvents
  /\ AllIdle
  /\ events' = events + 1
  /\ now' = now + 1
  /\ UNCHANGED <<service, disk, started, fileVars, engineVars, frame, parserVars, issued, eval, runner>>

\* The completion service goes down or comes back.
ServiceFlip ==
  /\ events < MaxEnvEvents
  /\ events' = events + 1
  /\ service' = IF service = "up" THEN "down" ELSE "up"
  /\ UNCHANGED <<now, disk, started, fileVars, engineVars, frame, parserVars, issued, eval, runner>>

\* The disk changes its status (seen by the next load or save: while no call
\* is running, or just before stage 5 ends in _save_rules).
DiskChange ==
  /\ events < MaxEnvEvents
  /\ \A r \in Runs : frame[r].pc \in {"idle", "rules"}
  /\ events' = events + 1
  /\ disk' \in {"ok", "denied", "full"} \ {disk}
  /\ UNCHANGED <<now, service, started, fileVars, engineVars, frame, parserVars, issued, eval, runner>>

\* The snapshot file is damaged or edited (between calls of the engine).
DamageSnapshot ==
  /\ events < MaxEnvEvents
  /\ AllIdle
  /\ events' = events + 1
  /\ snapshot' \in DamagedSnapshots
  /\ last_saved' = NotSaved
  /\ UNCHANGED <<now, service, disk, started, engineVars, frame, parserVars, issued, eval, runner>>

\* NovelReasoningEngine.__init__ (between runs): a fresh engine e, with
\* empty rules and history, then _load_existing_rules.  Constructing e again
\* replaces the engine by a fresh one.
Construct(e) ==
  /\ AllIdle
  /\ \E loaded \in {load_existing_rules(<<>>, snapshot, disk)} :
         IF loaded.exc # "none"
           THEN /\ constructed' = [constructed EXCEPT ![e] = FALSE]
                /\ rules' = [rules EXCEPT ![e] = <<>>]
                /\ reasoning_history' = [reasoning_history EXCEPT ![e] = <<>>]
                /\ load_log' = [load_log EXCEPT ![e] = [msg |-> "raised", count |-> 0]]
           ELSE /\ constructed' = [constructed EXCEPT ![e] = TRUE]
                /\ rules' = [rules EXCEPT ![e] = loaded.rules]
                /\ reasoning_history' = [reasoning_history EXCEPT ![e] = <<>>]
                /\ load_log' = [load_log EXCEPT ![e] = loaded.log]
  /\ issued' = [issued EXCEPT ![e] = <<>>]
  /\ UNCHANGED <<now, service, disk, events, started, fileVars, frame, parserVars, eval, runner>>

\* A caller awaits solve_problem on engine e.  The callers of the repository
\* await one call after the other, so one frame holds the running call.
StartRunWithin(r, e, limit) ==
  /\ constructed[e]
  /\ AllIdle
  /\ started < limit
  /\ started' = started + 1
  /\ \E p \in Problems :
       frame' = [frame EXCEPT ![r] =
                   [IdleFrame EXCEPT !.pc = "perspectives", !.engine = e, !.problem = p,
                                     !.rules_at_start = rules[e],
                                     !.steps_at_start = Len(reasoning_history[e])]]
  /\ UNCHANGED <<now, service, disk, events, fileVars, engineVars, parserVars, issued, eval, runner>>

StartRun(r, e) == StartRunWithin(r, e, MaxRuns)

\* Stage 1, one iteration of the loop over self.characters: the thought of
\* the next character and its ReasoningStep.
Perspective(r) ==
  /\ frame[r].pc = "perspectives"
  /\ LET e    == frame[r].engine
         i    == frame[r].next_char
         char == Characters[i]
     IN  \E out \in CallOutcomes(ThoughtResponses) :
           LET got  == generate_character_thought(char, out)
               step == [step_id |-> <<"step", Len(reasoning_history[e]), char>>,
                        character |-> char,
                        thought |-> got.value,
                        hypothesis |-> "None",
                        confidence |-> 0,
                        timestamp |-> isoformat(now)]
           IN  IF got.exc # "none"
                 THEN /\ frame' = [frame EXCEPT ![r].pc = "raised"]
                      /\ UNCHANGED <<reasoning_history, issued>>
                 ELSE /\ frame' = [frame EXCEPT
                            ![r].character_thoughts = Append(@, <<char, got.value>>),
                            ![r].calls = Append(@, [stage |-> "perspectives", character |-> char, exc |-> out.exc]),
                            ![r].next_char = i + 1,
                            ![r].pc = IF i = Len(Characters) THEN NextStage("perspectives") ELSE @]
                      /\ reasoning_history' = [reasoning_history EXCEPT ![e] = Append(@, step)]
                      /\ issued' = [issued EXCEPT ![e] = Append(@, step.step_id)]
  /\ UNCHANGED <<now, service, disk, events, started, fileVars, constructed, rules, load_log,
                 parserVars, eval, runner>>

\* Stage 2.
Hypothesis(r) ==
  /\ frame[r].pc = "hypotheses"
  /\ \E out \in CallOutcomes(HypothesisResponses) :
       LET got == generate_hypothesis(out)
       IN  frame' = IF got.exc # "none" THEN [frame EXCEPT ![r].pc = "raised"]
                    ELSE [frame EXCEPT ![r].hypotheses = got.value,
                                       ![r].calls = Append(@, [stage |-> "hypotheses", character |-> "", exc |-> out.exc]),
                                       ![r].pc = NextStage("hypotheses")]
  /\ UNCHANGED <<now, service, disk, events, started, fileVars, engineVars, parserVars, issued, eval, runner>>

\* Stage 3.
Simulate(r) ==
  /\ frame[r].pc = "simulate"
  /\ \E out \in CallOutcomes(SimulationResponses) :
       \E got \in {simulate_future_answers(out)} :
           frame' = IF got.exc # "none" THEN [frame EXCEPT ![r].pc = "raised"]
                    ELSE [frame EXCEPT ![r].approaches = got.value,
                                       ![r].calls = Append(@, [stage |-> "simulate", character |-> "", exc |-> out.exc]),
                                       ![r].pc = NextStage("simulate")]
  /\ UNCHANGED <<now, service, disk, events, started, fileVars, engineVars, parserVars, issued, eval, runner>>

\* Stage 4 (the two approaches are only prompt text from here on).
DualAnswers(r) ==
  /\ frame[r].pc = "dual"
  /\ \E out \in CallOutcomes(DualResponses) :
       \E got \in {generate_dual_answers(out)} :
           frame' = IF got.exc # "none" THEN [frame EXCEPT ![r].pc = "raised"]
                    ELSE [frame EXCEPT ![r].dual_answer = got.value,
                                       ![r].approaches = <<>>,
                                       ![r].calls = Append(@, [stage |-> "dual", character |-> "", exc |-> out.exc]),
                                       ![r].pc = NextStage("dual")]
  /\ UNCHANGED <<now, service, disk, events, started, fileVars, engineVars, parserVars, issued, eval, runner>>

\* Stage 5 and the rest of solve_problem, which runs without suspending:
\* self.rules.extend(new_rules), self._save_rules(), the result.
AbstractRules(r) ==
  /\ frame[r].pc = "rules"
  /\ LET e == frame[r].engine
     IN  \E out \in CallOutcomes(RuleResponses) :
           \E got \in {abstract_rules(out, now)} :
           \E extended \in {extend(rules[e], got.value)} :
           \E saved \in {save_rules(extended, snapshot, disk)} :
               IF got.exc # "none"
                 THEN /\ frame' = [frame EXCEPT ![r].pc = "raised"]
                      /\ UNCHANGED <<rules, fileVars>>
               ELSE IF saved.exc # "none"
                 THEN /\ frame' = [frame EXCEPT ![r].pc = "raised"]
                      /\ rules' = [rules EXCEPT ![e] = extended]
                      /\ UNCHANGED fileVars
               ELSE /\ rules' = [rules EXCEPT ![e] = extended]
                    /\ snapshot' = saved.file
                    /\ last_saved' = IF saved.log = "saved" THEN SavedFrom(extended)
                                     ELSE IF saved.file = snapshot THEN last_saved
                                     ELSE NotSaved
                    /\ frame' = [frame EXCEPT
                          ![r].calls = Append(@, [stage |-> "rules", character |-> "", exc |-> out.exc]),
                          ![r].new_rules = got.value,
                          ![r].save_log = saved.log,
                          ![r].result = RunResult(frame[r], frame[r].dual_answer, got.value,
                                                  extended, reasoning_history[e], now),
                          ![r].pc = NextStage("rules")]
  /\ UNCHANGED <<now, service, disk, events, started, constructed, reasoning_history, load_log,
                 parserVars, issued, eval, runner>>

\* The caller takes the result (or the exception); the call is over.
Finish(r) ==
  /\ frame[r].pc \in {"returned", "raised"}
  /\ frame' = [frame EXCEPT ![r] = IdleFrame]
  /\ UNCHANGED <<now, service, disk, events, started, fileVars, engineVars, parserVars, issued, eval, runner>>

\* A clearing that kept the first step.
clear_but_first(history) == SubSeq(history, 1, 1)

\* list.clear() on self.reasoning_history.
clear(history) == <<>>

\* clear_history()
ClearHistory(e) ==
  /\ constructed[e]
  /\ AllIdle
  /\ reasoning_history[e] # <<>>
  /\ reasoning_history' = [reasoning_history EXCEPT ![e] = clear(@)]
  /\ UNCHANGED <<now, service, disk, events, started, fileVars, constructed, rules, load_log,
                 frame, parserVars, issued, eval, runner>>

Next ==
  \/ Tick
  \/ ServiceFlip
  \/ DiskChange
  \/ DamageSnapshot
  \/ Construct(1)
  \/ \E r \in Runs : StartRun(r, 1)
  \/ \E r \in Runs : Perspective(r)
  \/ \E r \in Runs : Hypothesis(r)
  \/ \E r \in Runs : Simulate(r)
  \/ \E r \in Runs : DualAnswers(r)
  \/ \E r \in Runs : AbstractRules(r)
  \/ \E r \in Runs : Finish(r)
  \/ ClearHistory(1)

Spec == Init /\ [][Next]_vars


\* ------------------------------------------------ the parsers on their own
\* The texts of one to n lines drawn from a library of lines.
RECURSIVE Texts(_, _)
Texts(lib, n) ==
  IF n = 0 THEN {}
  ELSE lib \cup {t \o <<NL>> \o l : t \in Texts(lib, n - 1), l \in lib}

\* No engine, no run: only a parser is applied.
QuietPipeline ==
  /\ now = 0
  /\ service = "up"
  /\ disk = "ok"
  /\ events = 0
  /\ started = 0
  /\ snapshot = NoFile
  /\ last_saved = NotSaved
  /\ constructed = [e \in Engines |-> FALSE]
  /\ rules = [e \in Engines |-> <<>>]
  /\ reasoning_history = [e \in Engines |-> <<>>]
  /\ load_log = [e \in Engines |-> NoLog]
  /\ frame = [r \in Runs |-> IdleFrame]
  /\ issued = [e \in Engines |-> <<>>]

Quiet == QuietPipeline /\ eval = EvalIdle /\ runner = RunnerIdle

pipelineVars == <<now, service, disk, events, started, fileVars, engineVars, frame, issued>>

\* Lines a rule-abstraction response is made of.
RuleLines ==
  {<<"1", ".", " ", "S", "y", "m", "m", "e", "t", "r", "y">>, <<" ", "2", ".">>, <<"5", ".", " ", "m", "o", "r", "e">>, <<"D", "e", "s", "c", "r", "i", "p", "t", "i", "o", "n", ":", " ", "m", "i", "r", "r", "o", "r">>,
   <<"-", " ", "p", "a", "t", "t", "e", "r", "n", ":", " ", "a", ":", "b", " ">>, <<"R", "u", "l", "e", ":", " ", "t", "a", "l", "l", "y">>, <<"c", "o", "n", "f", "i", "d", "e", "n", "c", "e", ":", " ", "0", ".", "9">>,
   <<"C", "o", "n", "f", "i", "d", "e", "n", "c", "e", ":", " ", "h", "i", "g", "h">>, <<>>, <<"p", "l", "a", "i", "n", " ", "p", "r", "o", "s", "e">>}

\* The values of one rule in a four-rule document: the texts written after
\* the labels, and the number the confidence text denotes (in hundredths).
RuleValues ==
  <<[d |-> <<"m", "i", "r", "r", "o", "r", " ", "r", "o", "w", "s">>, p |-> <<"f", "l", "i", "p">>, c |-> <<"0", ".", "9">>, n |-> 90],
    [d |-> <<"c", "o", "u", "n", "t", ":", " ", "c", "e", "l", "l", "s">>, p |-> <<"a", " ", "-", ">", " ", "b">>, c |-> <<"0", ".", "2", "5">>, n |-> 25],
    [d |-> <<"x">>, p |-> <<"T", "a", "l", "l", "y", " ", "U", "p">>, c |-> <<"1">>, n |-> 100]>>

MarkerDigit == <<"1", "2", "3", "4">>

\* How a four-rule document is written.
DocStyles ==
  [marker : {"bare", "titled"}, labels : {"lower", "capital", "bullet"},
   order : {"dpc", "cpd"}]

FieldLine(label, value, style) ==
  CASE style.labels = "lower" -> label \o <<":", " ">> \o value
    [] style.labels = "capital" -> <<UpperOf[Head(label)]>> \o Tail(label) \o <<":">> \o value
    [] style.labels = "bullet" -> <<" ", " ", "-", " ">> \o label \o <<":", " ", " ">> \o value \o <<" ">>

\* The four lines of rule i of a document: its marker, then its three
\* labelled lines.
RuleBlock(i, v, style) ==
  LET marker == <<MarkerDigit[i], ".">> \o (IF style.marker = "titled" THEN <<" ", "T", "i", "t", "l", "e">> ELSE <<>>)
      dl     == FieldLine(<<"d", "e", "s", "c", "r", "i", "p", "t", "i", "o", "n">>, RuleValues[v].d, style)
      pl     == FieldLine(<<"p", "a", "t", "t", "e", "r", "n">>, RuleValues[v].p, style)
      cl     == FieldLine(<<"c", "o", "n", "f", "i", "d", "e", "n", "c", "e">>, RuleValues[v].c, style)
  IN  IF style.order = "dpc" THEN <<marker, dl, pl, cl>> ELSE <<marker, cl, pl, dl>>

FourRuleText(choice, style) ==
  Join(RuleBlock(1, choice[1], style) \o RuleBlock(2, choice[2], style)
         \o RuleBlock(3, choice[3], style) \o RuleBlock(4, choice[4], style), NL)

FourRuleInputs ==
  {[kind |-> "four_rules", text |-> FourRuleText(choice, style), choice |-> choice,
    style |-> style] :
     choice \in [1..4 -> DOMAIN RuleValues], style \in DocStyles}

\* Lines of a response whose markers and other enumerators carry labels,
\* and lines with two labels.
RecordLines ==
  {<<"1", ".", " ", "D", "e", "s", "c", "r", "i", "p", "t", "i", "o", "n", ":", " ", "X">>, <<"3", ".">>, <<" ", "2", ".", " ", "p", "a", "t", "t", "e", "r", "n", ":", " ", "q">>, <<"5", ".", " ", "d", "e", "s", "c", "r", "i", "p", "t", "i", "o", "n", ":", " ", "m", "o", "r", "e">>,
   <<"D", "e", "s", "c", "r", "i", "p", "t", "i", "o", "n", ":", " ", "m", "i", "r", "r", "o", "r">>, <<"R", "u", "l", "e", ":", " ", "r", ",", " ", "c", "o", "n", "f", "i", "d", "e", "n", "c", "e", ":", " ", "0", ".", "5">>, <<"c", "o", "n", "f", "i", "d", "e", "n", "c", "e", ":", " ", "0", ".", "5">>,
   <<"p", "l", "a", "i", "n", " ", "p", "r", "o", "s", "e">>}

RuleInputs ==
  {[kind |-> "rules", text |-> t, choice |-> <<>>, style |-> <<>>] :
     t \in Texts(RuleLines, MaxLines)}
  \cup FourRuleInputs
  \cup {[kind |-> "records", text |-> t, choice |-> <<>>, style |-> <<>>] :
          t \in Texts(RecordLines, MaxLines)}

InitRules == Quiet /\ input \in RuleInputs /\ output = NotRun

\* _parse_rules_from_response applied to the text.
ApplyParseRules ==
  /\ input.kind \in {"rules", "four_rules", "records"}
  /\ output = NotRun
  /\ output' = parse_rules_from_response(input.text, now)
  /\ UNCHANGED <<pipelineVars, eval, runner, input>>

NextRules == ApplyParseRules

SpecRules == InitRules /\ [][NextRules]_vars

\* Lines a dual-answer response is made of.
DualLines ==
  {<<"P", "r", "i", "m", "a", "r", "y", " ", "A", "n", "s", "w", "e", "r", ":", " ", "4", "2">>, <<" ", " ", "p", "r", "i", "m", "a", "r", "y", " ", "a", "n", "s", "w", "e", "r", ":", " ", " ", "7", " ", ":", " ", "1", " ">>, <<"A", "L", "T", "E", "R", "N", "A", "T", "I", "V", "E", " ", "A", "N", "S", "W", "E", "R", ":", " ", "4", "1">>,
   <<"a", "l", "t", "e", "r", "n", "a", "t", "i", "v", "e", " ", "a", "n", "s", "w", "e", "r", ":", " ", "a", " ", "(", "p", "r", "i", "m", "a", "r", "y", " ", "a", "n", "s", "w", "e", "r", ":", " ", "b", ")">>,
   <<"P", "r", "i", "m", "a", "r", "y", " ", "C", "o", "n", "f", "i", "d", "e", "n", "c", "e", ":", " ", "0", ".", "9">>, <<"p", "r", "i", "m", "a", "r", "y", " ", "c", "o", "n", "f", "i", "d", "e", "n", "c", "e", ":", " ", "n", "/", "a">>,
   <<"A", "l", "t", "e", "r", "n", "a", "t", "i", "v", "e", " ", "C", "o", "n", "f", "i", "d", "e", "n", "c", "e", ":", " ", "2">>,
   <<"R", "e", "a", "s", "o", "n", "i", "n", "g", " ", "C", "o", "m", "p", "a", "r", "i", "s", "o", "n", ":", " ", "b", "o", "t", "h", " ", "f", "i", "t">>, <<"r", "e", "c", "o", "m", "m", "e", "n", "d", "e", "d", " ", "a", "n", "s", "w", "e", "r", ":">>, <<"p", "l", "a", "i", "n", " ", "p", "r", "o", "s", "e">>}

\* The answers written after the two labels of a text that names only a
\* primary and a recommended answer.
AnswerValues == {<<"4", "2">>, <<"[", "[", "1", ",", " ", "2", "]", "]">>, <<"a", ":", " ", "b">>, <<>>}

PrimaryLabels == {<<"p", "r", "i", "m", "a", "r", "y", " ", "a", "n", "s", "w", "e", "r", ":">>, <<"P", "r", "i", "m", "a", "r", "y", " ", "A", "n", "s", "w", "e", "r", ":">>, <<"P", "R", "I", "M", "A", "R", "Y", " ", "A", "N", "S", "W", "E", "R", ":">>}
RecommendedLabels == {<<"r", "e", "c", "o", "m", "m", "e", "n", "d", "e", "d", " ", "a", "n", "s", "w", "e", "r", ":">>, <<"R", "e", "c", "o", "m", "m", "e", "n", "d", "e", "d", " ", "A", "n", "s", "w", "e", "r", ":">>, <<"R", "E", "C", "O", "M", "M", "E", "N", "D", "E", "D", " ", "A", "N", "S", "W", "E", "R", ":">>}

\* How such a text is laid out: which label line comes first, and where a
\* line without a label stands.
AnswerLayouts == [first : {"primary", "recommended"}, prose : {"none", "before", "between"}]

PrimaryRecommendedText(pl, rl, x, layout) ==
  LET pline == pl \o <<" ">> \o x
      rline == <<" ", " ">> \o rl \o x \o <<" ">>
      l1    == IF layout.first = "primary" THEN pline ELSE rline
      l2    == IF layout.first = "primary" THEN rline ELSE pline
  IN  CASE layout.prose = "none" -> Join(<<l1, l2>>, NL)
        [] layout.prose = "before" -> Join(<<<<"H", "e", "r", "e", " ", "i", "t", " ", "i", "s">>, l1, l2>>, NL)
        [] layout.prose = "between" -> Join(<<l1, <<>>, <<"a", "n", "d", " ", "s", "o">>, l2>>, NL)

PrimaryRecommendedInputs ==
  {[kind |-> "primary_recommended", text |-> PrimaryRecommendedText(pl, rl, x, layout),
    x |-> x, layout |-> layout] :
     pl \in PrimaryLabels, rl \in RecommendedLabels, x \in AnswerValues,
     layout \in AnswerLayouts}

DualInputs ==
  {[kind |-> "dual", text |-> t, x |-> <<>>, layout |-> <<>>] : t \in Texts(DualLines, MaxLines)}
  \cup PrimaryRecommendedInputs

InitDual == Quiet /\ input \in DualInputs /\ output = NotRun

\* _parse_dual_answers_from_response applied to the text.
ApplyParseDual ==
  /\ input.kind \in {"dual", "primary_recommended"}
  /\ output = NotRun
  /\ output' = parse_dual_answers_from_response(input.text)
  /\ UNCHANGED <<pipelineVars, eval, runner, input>>

NextDual == ApplyParseDual

SpecDual == InitDual /\ [][NextDual]_vars

\* Lines a dual-approach response is made of.
ApproachLines == {<<"s", "y", "s", "t", "e", "m", "a", "t", "i", "c">>, <<" ", "i", "n", "t", "u", "i", "t", "i", "v", "e", " ">>, <<>>, <<" ">>}

ApproachInputs ==
  {[kind |-> "approaches", text |-> t] : t \in {<<>>} \cup Texts(ApproachLines, MaxLines + 1)}

InitSplit == Quiet /\ input \in ApproachInputs /\ output = NotRun

\* The body of _simulate_future_answers applied to a response of the
\* completion service.
ApplySplit ==
  /\ input.kind = "approaches"
  /\ output = NotRun
  /\ output' = simulate_future_answers([exc |-> "none", content |-> input.text])
  /\ UNCHANGED <<pipelineVars, eval, runner, input>>

NextSplit == ApplySplit

SpecSplit == InitSplit /\ [][NextSplit]_vars

\* ------------------------------------------------------------------ grids
\* src/src/arcft/scripts/evaluate_model.py and src/src/arcft/prompts.py.
\* A grid is a sequence of rows, a row a sequence of integers.  A decoded
\* JSON value is a record [t, v]: t its type, v the integer of an "int", the
\* integer part of a "float" (all that int() keeps of it), the elements of
\* a "list", and 0 for true, false and null.  The texts of the model hold
\* no string literal, exponent, NaN or Infinity.

DigitChar == <<"0", "1", "2", "3", "4", "5", "6", "7", "8", "9">>

\* str(v) of an integer.
RECURSIVE str_int(_)
str_int(v) ==
  IF v < 0 THEN <<"-">> \o str_int(0 - v)
  ELSE IF v < 10 THEN <<DigitChar[v + 1]>>
  ELSE str_int(v \div 10) \o <<DigitChar[(v % 10) + 1]>>

\* sep.join(parts) for a separator of several characters.
RECURSIVE JoinWith(_, _)
JoinWith(parts, sep) ==
  IF parts = <<>> THEN <<>>
  ELSE IF Len(parts) = 1 THEN parts[1]
  ELSE parts[1] \o sep \o JoinWith(Tail(parts), sep)

\* A serialisation that put no comma between the cells.
format_grid_spaces(g) ==
  <<"[">> \o JoinWith([r \in 1..Len(g) |->
                 <<"[">> \o JoinWith([c \in 1..Len(g[r]) |-> str_int(g[r][c])], <<" ">>) \o <<"]">>],
               <<",", " ">>) \o <<"]">>

\* format_grid: rows and cells in brackets, separated by a comma and a space.
format_grid(g) ==
  <<"[">> \o JoinWith([r \in 1..Len(g) |->
                 <<"[">> \o JoinWith([c \in 1..Len(g[r]) |-> str_int(g[r][c])], <<",", " ">>) \o <<"]">>],
               <<",", " ">>) \o <<"]">>

\* key(g): json.dumps(g, separators=(",", ":")).
key(g) ==
  <<"[">> \o JoinWith([r \in 1..Len(g) |->
                 <<"[">> \o JoinWith([c \in 1..Len(g[r]) |-> str_int(g[r][c])], <<",">>) \o <<"]">>],
               <<",">>) \o <<"]">>

JsonWhitespace == {" ", "\n", "\t", "\r"}

RECURSIVE SkipWhitespace(_, _)
SkipWhitespace(s, i) ==
  IF i <= Len(s) /\ s[i] \in JsonWhitespace THEN SkipWhitespace(s, i + 1) ELSE i

\* The index after the run of digits that starts at i.
RECURSIVE DigitsEnd(_, _)
DigitsEnd(s, i) ==
  IF i <= Len(s) /\ s[i] \in DOMAIN DigitValue THEN DigitsEnd(s, i + 1) ELSE i

JsonFail == [ok |-> FALSE, val |-> [t |-> "null", v |-> 0], next |-> 0]

\* A JSON number at i: -? (0 | [1-9][0-9]*) (. [0-9]+)?
ScanNumber(s, i) ==
  LET neg  == s[i] = "-"
      j    == IF neg THEN i + 1 ELSE i
      k    == IF j <= Len(s) /\ s[j] = "0" THEN j + 1 ELSE DigitsEnd(s, j)
      frac == k + 1 <= Len(s) /\ s[k] = "." /\ s[k + 1] \in DOMAIN DigitValue
      m    == IF frac THEN DigitsEnd(s, k + 1) ELSE k
      mag  == DecimalValue(SubSeq(s, j, k - 1))
  IN  IF k = j THEN JsonFail
      ELSE [ok |-> TRUE,
            val |-> [t |-> IF frac THEN "float" ELSE "int", v |-> IF neg THEN 0 - mag ELSE mag],
            next |-> m]

JsonLiterals == {<<"t", "r", "u", "e">>, <<"f", "a", "l", "s", "e">>, <<"n", "u", "l", "l">>}

ScanLiteral(s, i) ==
  LET hits == {w \in JsonLiterals : StartsWith(SubSeq(s, i, Len(s)), w)}
  IN  IF hits = {} THEN JsonFail
      ELSE LET w == CHOOSE x \in hits : TRUE
           IN  [ok |-> TRUE,
                val |-> [t |-> CASE w = <<"t", "r", "u", "e">> -> "true" [] w = <<"f", "a", "l", "s", "e">> -> "false"
                                 [] OTHER -> "null", v |-> 0],
                next |-> i + Len(w)]

\* The JSON decoder's scanner: the value that starts at index i of s, and
\* the index after it.
RECURSIVE ScanValue(_, _)
RECURSIVE ScanElements(_, _, _)
ScanValue(s, i) ==
  IF i > Len(s) THEN JsonFail
  ELSE IF s[i] = "[" THEN
    LET j == SkipWhitespace(s, i + 1)
    IN  IF j <= Len(s) /\ s[j] = "]"
        THEN [ok |-> TRUE, val |-> [t |-> "list", v |-> <<>>], next |-> j + 1]
        ELSE ScanElements(s, j, <<>>)
  ELSE IF s[i] = "-" \/ s[i] \in DOMAIN DigitValue THEN ScanNumber(s, i)
  ELSE ScanLiteral(s, i)

\* The elements of an array from index i on, acc those already read.
ScanElements(s, i, acc) ==
  LET r == ScanValue(s, i)
  IN  IF ~r.ok THEN JsonFail
      ELSE LET j == SkipWhitespace(s, r.next)
           IN  IF j > Len(s) THEN JsonFail
               ELSE IF s[j] = "]"
                 THEN [ok |-> TRUE, val |-> [t |-> "list", v |-> Append(acc, r.val)], next |-> j + 1]
               ELSE IF s[j] = ","
                 THEN ScanElements(s, SkipWhitespace(s, j + 1), Append(acc, r.val))
               ELSE JsonFail

\* json.loads(text): one value with whitespace around it and nothing else;
\* exc is "JSONDecodeError" otherwise.
json_loads(text) ==
  LET r == ScanValue(text, SkipWhitespace(text, 1))
  IN  IF r.ok /\ SkipWhitespace(text, r.next) = Len(text) + 1
      THEN [exc |-> "none", value |-> r.val]
      ELSE [exc |-> "JSONDecodeError", value |-> JsonFail.val]

\* int(v) raises on None and on a list.
IntRaises(val) == val.t \in {"null", "list"}

\* int(v) of a decoded number or boolean.
int(val) == CASE val.t = "true" -> 1 [] val.t = "false" -> 0 [] OTHER -> val.v

looks_like_grid(obj) ==
  /\ obj.t = "list"
  /\ obj.v # <<>>
  /\ \A r \in 1..Len(obj.v) : obj.v[r].t = "list" /\ obj.v[r].v # <<>>
  /\ \A r \in 1..Len(obj.v) : Len(obj.v[r].v) = Len(obj.v[1].v)
  /\ \A r \in 1..Len(obj.v) : \A c \in 1..Len(obj.v[r].v) : ~IntRaises(obj.v[r].v[c])

\* [[int(v) for v in row] for row in obj]
IntGrid(obj) == [r \in 1..Len(obj.v) |-> [c \in 1..Len(obj.v[r].v) |-> int(obj.v[r].v[c])]]

\* re.findall(r"\[.*?\]", text, flags=re.DOTALL) from index i on: each match
\* runs from a '[' to the first ']' after it, and the search goes on behind
\* the match.
RECURSIVE findall_bracketed(_, _)
findall_bracketed(text, i) ==
  LET open  == FindChar(text, "[", i)
      close == IF open = 0 THEN 0 ELSE FindChar(text, "]", open + 1)
  IN  IF open = 0 \/ close = 0 THEN <<>>
      ELSE <<SubSeq(text, open, close)>> \o findall_bracketed(text, close + 1)

\* The for loop of parse_grid over the candidates.
RECURSIVE FirstGridOf(_)
FirstGridOf(candidates) ==
  IF candidates = <<>> THEN None
  ELSE LET got == json_loads(candidates[1])
       IN  IF got.exc # "none" THEN FirstGridOf(Tail(candidates))
           ELSE IF looks_like_grid(got.value) THEN Some(IntGrid(got.value))
           ELSE FirstGridOf(Tail(candidates))

parse_grid(text) ==
  LET got == json_loads(text)
  IN  IF got.exc # "none" THEN FirstGridOf(findall_bracketed(text, 1))
      ELSE IF ~looks_like_grid(got.value) THEN None
      ELSE Some(IntGrid(got.value))

\* The grids of the model: up to MaxSide rows and columns.
Cells == {0, 7, 12}
Shapes == (1..MaxSide) \X (1..MaxSide)
Grids == UNION {[1..sh[1] -> [1..sh[2] -> Cells]] : sh \in Shapes}

\* Grids a reply carries inside prose.
EmbeddedGrids == {<<<<1, 2>>, <<3, 4>>>>, <<<<7>>>>, <<<<0, 12>>>>}

\* Prose before and after an embedded grid.
Prefixes == {<<>>, <<"T", "h", "e", " ", "a", "n", "s", "w", "e", "r", " ", "i", "s", " ">>, <<"O", "u", "t", "p", "u", "t", ":", "\n">>}
Suffixes == {<<>>, <<".">>, <<"\n", "D", "o", "n", "e">>}
ProseAround == (Prefixes \X Suffixes) \ {<<<<>>, <<>>>>}

\* Texts that hold no rectangular integer grid, and whole-text JSON whose
\* cells are not integers.
OtherTexts ==
  {<<>>, <<"n", "o", " ", "g", "r", "i", "d", " ", "h", "e", "r", "e">>, <<"[", "1", ",", " ", "2", "]">>, <<"[", "[", "1", ",", " ", "2", "]", ",", " ", "[", "3", "]", "]">>, <<"[", "[", "]", "]">>, <<"[", "]">>, <<"7">>,
   <<"[", "[", "n", "u", "l", "l", "]", "]">>, <<"s", "e", "e", " ", "[", "1", "]", " ", "a", "n", "d", " ", "[", "2">>, <<" ", "[", "[", "1", ".", "5", ",", " ", "t", "r", "u", "e", "]", ",", " ", "[", "-", "0", ".", "5", ",", " ", "f", "a", "l", "s", "e", "]", "]", "\n">>, <<"[", "[", "0", "1", "]", "]">>,
   <<"[", "[", "1", ",", " ", "2", "]", ",", "]">>, <<"[", "[", "[", "1", "]", "]", "]">>}

GridInputs ==
  {[kind |-> "grid", grid |-> g, text |-> format_grid(g)] : g \in Grids}
  \cup {[kind |-> "embedded", grid |-> g[1], text |-> around[1] \o g[2] \o around[2]] :
          g \in {<<e, format_grid(e)>> : e \in EmbeddedGrids}
                  \cup {<<e, key(e)>> : e \in EmbeddedGrids},
          around \in ProseAround}
  \cup {[kind |-> "other", grid |-> <<>>, text |-> t] : t \in OtherTexts}

InitGrid == Quiet /\ input \in GridInputs /\ output = NotRun

\* parse_grid applied to the text.
ApplyParseGrid ==
  /\ input.kind \in {"grid", "embedded", "other"}
  /\ output = NotRun
  /\ output' = parse_grid(input.text)
  /\ UNCHANGED <<pipelineVars, eval, runner, input>>

NextGrid == ApplyParseGrid

SpecGrid == InitGrid /\ [][NextGrid]_vars

\* ------------------------------------------------------- the evaluation loop
\* main of src/src/arcft/scripts/evaluate_model.py.

\* The correct outputs of the evaluation examples.
GridA == <<<<1, 2>>, <<3, 4>>>>
GridB == <<<<7>>>>
Examples(n) == [i \in 1..n |-> IF i % 2 = 1 THEN GridA ELSE GridB]

\* What one completion call ends with: a reply (the same grid can come in
\* two spellings), a reply without content, or an exception.
SampleReplies == {key(GridA), format_grid(GridA), key(GridB), <<"n", "o", " ", "g", "r", "i", "d", " ", "h", "e", "r", "e">>}
SampleOutcomes ==
  {[exc |-> "none", content |-> t] : t \in SampleReplies \cup {<<>>}}
  \cup {[exc |-> "APIError", content |-> <<>>]}

\* range(max(1, samples))
SamplesTaken(samples) == IF samples < 1 THEN 1 ELSE samples

\* [g for g in (parse_grid(t) for t in texts) if g is not None]
RECURSIVE Parsed(_)
Parsed(ts) ==
  IF ts = <<>> THEN <<>>
  ELSE LET g == parse_grid(Head(ts))
       IN  IF g.none THEN Parsed(Tail(ts)) ELSE <<g.grid>> \o Parsed(Tail(ts))

\* Counter(...): the keys in the order they were first counted, each with
\* its count.
CounterAdd(c, k) ==
  IF \E i \in 1..Len(c) : c[i].key = k
  THEN [i \in 1..Len(c) |-> IF c[i].key = k THEN [c[i] EXCEPT !.n = @ + 1] ELSE c[i]]
  ELSE Append(c, [key |-> k, n |-> 1])

RECURSIVE Counter(_, _)
Counter(keys, c) == IF keys = <<>> THEN c ELSE Counter(Tail(keys), CounterAdd(c, Head(keys)))

\* A choice of the last of the most frequent keys.
most_common_last(c) ==
  c[CHOOSE i \in 1..Len(c) :
      /\ \A j \in 1..Len(c) : c[j].n <= c[i].n
      /\ \A j \in (i + 1)..Len(c) : c[j].n < c[i].n]

\* c.most_common(1)[0]: heapq.nlargest(1, items, key=count), the first of
\* the items with the largest count.
most_common(c) ==
  c[CHOOSE i \in 1..Len(c) :
      /\ \A j \in 1..Len(c) : c[j].n <= c[i].n
      /\ \A j \in 1..(i - 1) : c[j].n < c[i].n]

\* The majority vote over the parsed grids.
Vote(parsed) ==
  IF parsed # <<>>
  THEN LET c        == Counter([i \in 1..Len(parsed) |-> key(parsed[i])], <<>>)
           best_key == most_common(c).key
       IN  Some(IntGrid(json_loads(best_key).value))
  ELSE None

\* grids_equal of src/src/arcft/dataset.py
grids_equal(a, b) ==
  IF Len(a) # Len(b) THEN FALSE
  ELSE \A i \in 1..Len(a) : a[i] = b[i]

\* A count that left out the examples without a prediction.
Count_predicted(stats, pred, test_out) ==
  IF pred.none THEN stats
  ELSE [total |-> stats.total + 1,
        correct |-> IF grids_equal(pred.grid, test_out) THEN stats.correct + 1 ELSE stats.correct]

\* stats.total += 1; if pred is not None and grids_equal(pred, test_out):
\* stats.correct += 1
Count(stats, pred, test_out) ==
  [total |-> stats.total + 1,
   correct |-> IF ~pred.none /\ grids_equal(pred.grid, test_out)
               THEN stats.correct + 1 ELSE stats.correct]

InitEval ==
  /\ QuietPipeline
  /\ input = <<>>
  /\ output = NotRun
  /\ runner = RunnerIdle
  /\ \E samples \in 0..MaxSamples :
       eval = [EvalIdle EXCEPT !.pc = "loop", !.samples = samples,
                               !.examples = Examples(MaxExamples)]

\* The loop over the examples takes the next one; texts starts empty (the
\* parsed grids and the prediction of the example before are not read again).
NextExample ==
  /\ eval.pc = "loop"
  /\ eval.position < Len(eval.examples)
  /\ eval' = [eval EXCEPT !.pc = "sampling", !.position = @ + 1, !.texts = <<>>,
                          !.parsed = <<>>, !.pred = None]
  /\ UNCHANGED <<pipelineVars, parserVars, runner>>

\* One completion call: its content, or "" when there is none or the call
\* raised.
Sample ==
  /\ eval.pc = "sampling"
  /\ Len(eval.texts) < SamplesTaken(eval.samples)
  /\ \E out \in SampleOutcomes :
       eval' = [eval EXCEPT !.texts = Append(@, IF out.exc # "none" THEN <<>> ELSE out.content)]
  /\ UNCHANGED <<pipelineVars, parserVars, runner>>

\* The samples are parsed, the vote is taken and the example is counted.
Score ==
  /\ eval.pc = "sampling"
  /\ Len(eval.texts) = SamplesTaken(eval.samples)
  /\ \E parsed \in {Parsed(eval.texts)} :
       \E pred \in {Vote(parsed)} :
         eval' = [eval EXCEPT !.pc = "loop", !.parsed = parsed, !.pred = pred,
                              !.stats = Count(@, pred, eval.examples[eval.position])]
  /\ UNCHANGED <<pipelineVars, parserVars, runner>>

\* After the last example the totals are echoed.
Report ==
  /\ eval.pc = "loop"
  /\ eval.position = Len(eval.examples)
  /\ eval' = [eval EXCEPT !.pc = "done"]
  /\ UNCHANGED <<pipelineVars, parserVars, runner>>

NextEval == NextExample \/ Sample \/ Score \/ Report

SpecEval == InitEval /\ [][NextEval]_vars

\* ------------------------------------------------------- padded accuracy
\* ARCTestRunner.calculate_accuracy of src/arc_test_runner.py.  The float it
\* returns is kept as the quotient it is computed from, [num, den].

Quotient(num, den) == [num |-> num, den |-> den]

\* np.array(g).shape is (rows, columns) for a list of rows of one length;
\* for an empty or ragged list numpy gives no second dimension or refuses
\* the list, and either way the body raises.
IsArray2D(g) == g # <<>> /\ \A r \in 1..Len(g) : Len(g[r]) = Len(g[1])

Max(a, b) == IF a >= b THEN a ELSE b

\* A padding that filled the new cells with 1.
PadTo_ones(g, rows, cols) ==
  [r \in 1..rows |-> [c \in 1..cols |-> IF r <= Len(g) /\ c <= Len(g[1]) THEN g[r][c] ELSE 1]]

\* np.zeros((rows, cols)) with the grid assigned to its upper left corner.
PadTo(g, rows, cols) ==
  [r \in 1..rows |-> [c \in 1..cols |-> IF r <= Len(g) /\ c <= Len(g[1]) THEN g[r][c] ELSE 0]]

\* An accuracy that gave no credit to grids of different shapes.
calculate_accuracy_same_shape(predicted, expected) ==
  IF ~IsArray2D(predicted) \/ ~IsArray2D(expected)
  THEN [exc |-> "none", value |-> Quotient(0, 1)]
  ELSE IF Len(predicted) # Len(expected) \/ Len(predicted[1]) # Len(expected[1])
  THEN [exc |-> "none", value |-> Quotient(0, Max(Len(predicted), Len(expected))
                                                * Max(Len(predicted[1]), Len(expected[1])))]
  ELSE [exc |-> "none",
        value |-> Quotient(Cardinality({rc \in (1..Len(expected)) \X (1..Len(expected[1])) :
                                          predicted[rc[1]][rc[2]] = expected[rc[1]][rc[2]]}),
                           Len(expected) * Len(expected[1]))]

calculate_accuracy(predicted, expected) ==
  IF ~IsArray2D(predicted) \/ ~IsArray2D(expected)
  THEN [exc |-> "none", value |-> Quotient(0, 1)]
  ELSE LET max_rows     == Max(Len(predicted), Len(expected))
           max_cols     == Max(Len(predicted[1]), Len(expected[1]))
           pred_padded  == PadTo(predicted, max_rows, max_cols)
           exp_padded   == PadTo(expected, max_rows, max_cols)
           correct_cells == Cardinality({rc \in (1..max_rows) \X (1..max_cols) :
                                           pred_padded[rc[1]][rc[2]] = exp_padded[rc[1]][rc[2]]})
           total_cells  == max_rows * max_cols
       IN  [exc |-> "none",
            value |-> IF total_cells > 0 THEN Quotient(correct_cells, total_cells)
                      ELSE Quotient(0, 1)]

\* The candidates: every grid of up to MaxSide rows and columns over two
\* cell values, the one-row candidate [[1, 2]], and two lists that are not
\* rectangular grids.
CandidateCells == {0, 3}
CandidateGrids ==
  UNION {[1..sh[1] -> [1..sh[2] -> CandidateCells]] : sh \in Shapes} \cup {<<<<1, 2>>>>}
NotGrids == {<<>>, <<<<1, 2>>, <<3>>>>}
ExpectedGrids == {GridA, <<<<0>>>>, <<<<0, 3>>>>, <<<<3>>, <<0>>, <<3>>>>}

\* Grids that differ by rows and columns of zeros at the end, or by a cell.
TrailingZeroGrids ==
  {<<<<1>>>>, <<<<1, 0>>>>, <<<<1>>, <<0>>>>, <<<<1, 0>>, <<0, 0>>>>, <<<<0, 1>>>>, <<<<1, 1>>>>,
   <<<<0>>>>, <<<<0, 0>>>>}

AccuracyInputs ==
  {[kind |-> "accuracy", predicted |-> p, expected |-> e] :
     p \in CandidateGrids \cup NotGrids, e \in ExpectedGrids}
  \cup {[kind |-> "accuracy", predicted |-> p, expected |-> e] :
          p \in TrailingZeroGrids, e \in TrailingZeroGrids}

InitAccuracy == Quiet /\ input \in AccuracyInputs /\ output = NotRun

\* calculate_accuracy applied to the two grids.
ApplyAccuracy ==
  /\ input.kind = "accuracy"
  /\ output = NotRun
  /\ output' = calculate_accuracy(input.predicted, input.expected)
  /\ UNCHANGED <<pipelineVars, eval, runner, input>>

NextAccuracy == ApplyAccuracy

SpecAccuracy == InitAccuracy /\ [][NextAccuracy]_vars

\* --------------------------------------------------------- the test runner
\* ARCTestRunner of src/arc_test_runner.py.

\* The character '²', held as one character: a digit for str.isdigit that
\* int does not accept.
SuperscriptTwo == "^2"

\* x.isdigit(): at least one character, and every character a digit.
isdigit(x) == x # <<>> /\ \A i \in 1..Len(x) : x[i] \in (DOMAIN DigitValue) \cup {SuperscriptTwo}

\* int(x) for a string x.
int_of_str(x) ==
  IF x # <<>> /\ AllDigits(x) THEN [exc |-> "none", value |-> DecimalValue(x)]
  ELSE [exc |-> "ValueError", value |-> 0]

\* line.split(): the runs of characters that are no whitespace.
RECURSIVE WordsFrom(_, _)
WordsFrom(s, word) ==
  IF s = <<>> THEN (IF word = <<>> THEN <<>> ELSE <<word>>)
  ELSE IF Head(s) \in Whitespace
    THEN (IF word = <<>> THEN <<>> ELSE <<word>>) \o WordsFrom(Tail(s), <<>>)
  ELSE WordsFrom(Tail(s), Append(word, Head(s)))

split(line) == WordsFrom(line, <<>>)

\* [int(x) if x.isdigit() else 0 for x in line.split()]
RowOf(line) ==
  LET words == split(line)
      cells == [i \in 1..Len(words) |->
                  IF isdigit(words[i]) THEN int_of_str(words[i])
                  ELSE [exc |-> "none", value |-> 0]]
  IN  IF \E i \in 1..Len(words) : cells[i].exc # "none"
        THEN [exc |-> "ValueError", row |-> <<>>]
        ELSE [exc |-> "none", row |-> [i \in 1..Len(words) |-> cells[i].value]]

\* The loop over the lines of parse_grid_response.
RECURSIVE RowsOf(_, _)
RowsOf(lines, grid) ==
  IF lines = <<>> THEN [exc |-> "none", grid |-> grid]
  ELSE IF Strip(Head(lines)) = <<>> THEN RowsOf(Tail(lines), grid)
  ELSE LET made == RowOf(Head(lines))
       IN  IF made.exc # "none" THEN [exc |-> made.exc, grid |-> <<>>]
           ELSE RowsOf(Tail(lines), IF made.row # <<>> THEN Append(grid, made.row) ELSE grid)

\* A parse_grid_response that gave up on a token that is no number.
parse_grid_response_numbers_only(response) ==
  LET made == RowsOf(Split(Strip(response), NL), <<>>)
      words == split(response)
  IN  IF made.exc # "none" \/ \E i \in 1..Len(words) : ~isdigit(words[i]) THEN None
      ELSE IF made.grid # <<>> THEN Some(made.grid)
      ELSE None

\* parse_grid_response: the grid, or None (also when the body raised).
parse_grid_response(response) ==
  LET made == RowsOf(Split(Strip(response), NL), <<>>)
  IN  IF made.exc # "none" THEN None
      ELSE IF made.grid # <<>> /\ \A i \in 1..Len(made.grid) : Len(made.grid[i]) > 0
        THEN Some(made.grid)
      ELSE None

\* Lines of a primary answer, and the answers of one to MaxLines lines.
ResponseLines ==
  {<<"1", " ", "2">>, <<" ", "3", "0", "\t", "4", " ">>, <<"x", "7", " ", ".">>, <<SuperscriptTwo>>, <<"E", "r", "r", "o", "r", " ", "g", "e", "n", "e", "r", "a", "t", "i", "n", "g", " ", "p", "r", "i", "m", "a", "r", "y", " ", "a", "n", "s", "w", "e", "r">>,
   <<"P", "r", "i", "m", "a", "r", "y", " ", "a", "n", "s", "w", "e", "r", " ", "n", "o", "t", " ", "f", "o", "u", "n", "d">>, <<" ">>, <<>>}

ResponseInputs == {[kind |-> "response", text |-> t] : t \in Texts(ResponseLines, MaxLines)}

InitResponse == Quiet /\ input \in ResponseInputs /\ output = NotRun

\* parse_grid_response applied to a text.
ApplyParseGridResponse ==
  /\ input.kind = "response"
  /\ output = NotRun
  /\ output' = parse_grid_response(input.text)
  /\ UNCHANGED <<pipelineVars, eval, runner, input>>


\* d.get(k, default)
Get(d, k, default) == IF k \in DOMAIN d THEN d[k] ELSE default

\* The example['input'] and example['output'] of create_arc_prompt: a
\* KeyError for the first key an example lacks, whose text is the key in
\* quotes.
PromptRaises(train_examples) ==
  \E i \in 1..Len(train_examples) : ~({"input", "output"} \subseteq DOMAIN train_examples[i])

PromptError(train_examples) ==
  LET i == CHOOSE i \in 1..Len(train_examples) :
             /\ ~({"input", "output"} \subseteq DOMAIN train_examples[i])
             /\ \A j \in 1..(i - 1) : {"input", "output"} \subseteq DOMAIN train_examples[j]
  IN  IF "input" \notin DOMAIN train_examples[i] THEN "'input'" ELSE "'output'"

\* What engine.solve_problem gives the runner: its result, of which only
\* dual_answers is read.
EngineResponses ==
  DualResponses \cup {<<"P", "r", "i", "m", "a", "r", "y", " ", "A", "n", "s", "w", "e", "r", ":", " ", "1", " ", "2">>, <<"P", "r", "i", "m", "a", "r", "y", " ", "A", "n", "s", "w", "e", "r", ":">>,
                      <<"P", "r", "i", "m", "a", "r", "y", " ", "A", "n", "s", "w", "e", "r", ":", " ">> \o <<SuperscriptTwo>>}

EngineOutcomes ==
  {[exc |-> "none", result |-> [dual_answers |-> generate_dual_answers(out).value]] :
     out \in {[exc |-> "none", content |-> c] : c \in EngineResponses}
             \cup {[exc |-> "APIError", content |-> <<>>]}}

\* solve_single_task once engine.solve_problem has ended with outcome (when
\* it is called at all), solve_time ticks after it was called.
solve_single_task(task_id, task_data, outcome, solve_time) ==
  LET train_examples == Get(task_data, "train", <<>>)
      test           == Get(task_data, "test", <<EmptyDict>>)
  IN  IF test = <<>>
        THEN [task_id |-> task_id, status |-> "error", error |-> "list index out of range"]
      ELSE IF train_examples = <<>> \/ Get(test[1], "input", <<>>) = <<>>
        THEN [task_id |-> task_id, status |-> "skipped", reason |-> "Missing data"]
      ELSE IF PromptRaises(train_examples)
        THEN [task_id |-> task_id, status |-> "error", error |-> PromptError(train_examples)]
      ELSE IF outcome.exc # "none"
        THEN [task_id |-> task_id, status |-> "error", error |-> outcome.exc]
      ELSE IF outcome.result # EmptyDict /\ "dual_answers" \in DOMAIN outcome.result
        THEN LET dual_answers   == outcome.result.dual_answers
                 primary_answer == Get(dual_answers, "primary_answer", <<"N", "o", " ", "a", "n", "s", "w", "e", "r", " ", "f", "o", "u", "n", "d">>)
                 predicted_grid == parse_grid_response(primary_answer)
             IN  IF ~predicted_grid.none
                   THEN [task_id |-> task_id, status |-> "completed", solve_time |-> solve_time,
                         predicted_grid |-> predicted_grid.grid,
                         grid_shape |-> <<Len(predicted_grid.grid), Len(predicted_grid.grid[1])>>,
                         reasoning_quality |-> IF Len(predicted_grid.grid) > 0 THEN "high" ELSE "low"]
                   ELSE [task_id |-> task_id, status |-> "failed", reason |-> "Parse error"]
      ELSE [task_id |-> task_id, status |-> "failed", reason |-> "No reasoning result"]

\* A task with a training example and a test input.
CompleteTask ==
  [train |-> <<[input |-> <<<<1, 0>>>>, output |-> <<<<0, 1>>>>]>>,
   test |-> <<[input |-> <<<<1, 0>>>>]>>]

\* solve_single_task on a complete task, the primary answer of the engine
\* being the text.
SolveWithAnswer ==
  /\ input.kind = "response"
  /\ runner.pc = "idle"
  /\ \E solve_time \in {0} :
       \E outcome \in {[exc |-> "none",
                        result |-> [dual_answers |-> [primary_answer |-> input.text]]]} :
         runner' = [runner EXCEPT
                      !.pc = "solved",
                      !.results = <<solve_single_task("t1", CompleteTask, outcome, solve_time)>>]
  /\ UNCHANGED <<pipelineVars, parserVars, eval>>

NextResponse == ApplyParseGridResponse \/ SolveWithAnswer

SpecResponse == InitResponse /\ [][NextResponse]_vars

\* len([r for r in results if r.get('status') == status])
RECURSIVE CountStatus(_, _)
CountStatus(results, status) ==
  IF results = <<>> THEN 0
  ELSE (IF Get(Head(results), "status", "None") = status THEN 1 ELSE 0)
       + CountStatus(Tail(results), status)

\* sum of r.get('solve_time', 0) over the completed results.
RECURSIVE SolveTimeSum(_)
SolveTimeSum(results) ==
  IF results = <<>> THEN 0
  ELSE (IF Get(Head(results), "status", "None") = "completed"
          THEN Get(Head(results), "solve_time", 0) ELSE 0)
       + SolveTimeSum(Tail(results))

\* A compile_statistics that left the skipped tasks out of its total.
compile_statistics_attempted(results) ==
  [total_tasks |-> Len(results) - CountStatus(results, "skipped"),
   completed |-> CountStatus(results, "completed"),
   failed |-> CountStatus(results, "failed"),
   errors |-> CountStatus(results, "error"),
   skipped |-> CountStatus(results, "skipped"),
   completion_rate |-> IF Len(results) - CountStatus(results, "skipped") > 0
                         THEN Quotient(CountStatus(results, "completed"),
                                       Len(results) - CountStatus(results, "skipped"))
                         ELSE Quotient(0, 1),
   avg_solve_time |-> IF CountStatus(results, "completed") > 0
                        THEN Quotient(SolveTimeSum(results), CountStatus(results, "completed"))
                        ELSE Quotient(0, 1),
   total_solve_time |-> SolveTimeSum(results)]

\* compile_statistics; the quotients are kept as computed, 0 as 0/1.
compile_statistics(results) ==
  LET total     == Len(results)
      completed == CountStatus(results, "completed")
  IN  [total_tasks |-> total,
       completed |-> completed,
       failed |-> CountStatus(results, "failed"),
       errors |-> CountStatus(results, "error"),
       skipped |-> CountStatus(results, "skipped"),
       completion_rate |-> IF total > 0 THEN Quotient(completed, total) ELSE Quotient(0, 1),
       avg_solve_time |-> IF completed > 0 THEN Quotient(SolveTimeSum(results), completed)
                          ELSE Quotient(0, 1),
       total_solve_time |-> SolveTimeSum(results)]

\* The tasks of a test file: complete, without training examples, without
\* a test input, with an empty test list, with an example that has no
\* output.
TaskGrid == <<<<1, 0>>>>
TaskData ==
  {[train |-> <<[input |-> TaskGrid, output |-> TaskGrid]>>, test |-> <<[input |-> TaskGrid]>>],
   [test |-> <<[input |-> TaskGrid]>>],
   [train |-> <<[input |-> TaskGrid, output |-> TaskGrid]>>],
   [train |-> <<[input |-> TaskGrid, output |-> TaskGrid]>>, test |-> <<>>],
   [train |-> <<[input |-> TaskGrid]>>, test |-> <<[input |-> TaskGrid]>>]}

\* The test files of up to n tasks, as the (task_id, task_data) items of
\* the dict in its order.
TaskIds == <<"t1", "t2", "t3">>
RECURSIVE TestData(_)
TestData(n) ==
  IF n = 0 THEN {<<>>}
  ELSE TestData(n - 1)
       \cup {Append(items, <<TaskIds[n], d>>) : items \in {t \in TestData(n - 1) : Len(t) = n - 1},
                                                d \in TaskData}

\* Ticks between the two readings of the clock around solve_problem, and
\* ticks run_tests spends outside its loop.
SolveTimes == {0, 1}
OverheadTicks == {0, 1}

\* run_tests is called with a test file and max_tasks (0: None or 0, which
\* the code treats alike).
InitRunner ==
  /\ QuietPipeline
  /\ eval = EvalIdle
  /\ input = <<>>
  /\ output = NotRun
  /\ \E test_data \in TestData(MaxTasks) : \E max_tasks \in 0..1 :
       runner = [RunnerIdle EXCEPT !.pc = "called", !.test_data = test_data,
                                   !.max_tasks = max_tasks]

\* tasks_to_run = list(test_data.items())[:max_tasks] if max_tasks else all
StartTests ==
  /\ runner.pc = "called"
  /\ runner' = [runner EXCEPT
       !.pc = "loop",
       !.tasks = IF runner.max_tasks # 0
                   THEN SubSeq(runner.test_data, 1,
                               IF runner.max_tasks < Len(runner.test_data)
                                 THEN runner.max_tasks ELSE Len(runner.test_data))
                   ELSE runner.test_data]
  /\ UNCHANGED <<pipelineVars, parserVars, eval>>

\* One iteration of the loop: solve_single_task and the sleep of a second.
SolveTask ==
  /\ runner.pc = "loop"
  /\ runner.position < Len(runner.tasks)
  /\ \E outcome \in EngineOutcomes : \E solve_time \in SolveTimes :
       \E task \in {runner.tasks[runner.position + 1]} :
         runner' = [runner EXCEPT
           !.position = @ + 1,
           !.results = Append(@, solve_single_task(task[1], task[2], outcome, solve_time)),
           !.elapsed = @ + solve_time + TicksPerSecond]
  /\ UNCHANGED <<pipelineVars, parserVars, eval>>

\* After the loop: the statistics, total_time and tasks_per_minute (a
\* division by total_time / 60, which raises when no time has passed), and
\* the summary.
CompileTests ==
  /\ runner.pc = "loop"
  /\ runner.position = Len(runner.tasks)
  /\ \E overhead \in OverheadTicks :
       \E total_time \in {runner.elapsed + overhead} :
       \E stats \in {compile_statistics(runner.results)} :
         runner' = IF total_time = 0
                     THEN [runner EXCEPT !.pc = "raised", !.elapsed = total_time,
                                         !.statistics = SetItem(stats, "total_time", total_time)]
                     ELSE [runner EXCEPT
                             !.pc = "returned", !.elapsed = total_time,
                             !.statistics =
                                SetItem(SetItem(stats, "total_time", total_time),
                                        "tasks_per_minute",
                                        Quotient(Len(runner.results) * 60 * TicksPerSecond,
                                                 total_time))]
  /\ UNCHANGED <<pipelineVars, parserVars, eval>>

NextRunner == StartTests \/ SolveTask \/ CompileTests

SpecRunner == InitRunner /\ [][NextRunner]_vars

\* ------------------------------------------------------------ augmentation
\* src/src/arcft/augment.py and the loop of main in
\* src/src/arcft/scripts/augment_dataset.py.

rotate90(g) == [r \in 1..Len(g[1]) |-> [c \in 1..Len(g) |-> g[Len(g) - c + 1][r]]]
rotate180(g) == [r \in 1..Len(g) |-> [c \in 1..Len(g[1]) |-> g[Len(g) - r + 1][Len(g[1]) - c + 1]]]
rotate270(g) == [r \in 1..Len(g[1]) |-> [c \in 1..Len(g) |-> g[c][Len(g[1]) - r + 1]]]
flip_h(g) == [r \in 1..Len(g) |-> [c \in 1..Len(g[1]) |-> g[r][Len(g[1]) - c + 1]]]
flip_v(g) == [r \in 1..Len(g) |-> g[Len(g) - r + 1]]

\* The names of TRANSFORMS, in its order.
TRANSFORMS == <<"rot90", "rot180", "rot270", "flip_h", "flip_v">>

Transform(op, g) ==
  CASE op = "rot90" -> rotate90(g)
    [] op = "rot180" -> rotate180(g)
    [] op = "rot270" -> rotate270(g)
    [] op = "flip_h" -> flip_h(g)
    [] op = "flip_v" -> flip_v(g)

\* The loop of apply_combo over ops.
RECURSIVE Geometric(_, _)
Geometric(g, ops) == IF ops = <<>> THEN g ELSE Geometric(Transform(Head(ops), g), Tail(ops))

\* The colours of a grid other than 0.
Colours(g) == {g[r][c] : r \in 1..Len(g), c \in 1..Len(g[1])} \ {0}

\* The orders random.shuffle can leave a list of the colours cs in, as the
\* mapping from each colour to the colour at its place.
Shuffles(cs) == {m \in [cs -> cs] : \A a, b \in cs : m[a] = m[b] => a = b}

Recolour(g, mapping) ==
  [r \in 1..Len(g) |-> [c \in 1..Len(g[1]) |->
     IF g[r][c] = 0 THEN 0
     ELSE IF g[r][c] \in DOMAIN mapping THEN mapping[g[r][c]] ELSE g[r][c]]]

\* The colours of the tasks other than 0.
Palette == {1, 2, 3}

\* A color_permute that shuffled the whole palette of the task.
color_permute_palette(g) == {Recolour(g, m) : m \in Shuffles(Palette)}

\* color_permute: the grids it can return.
color_permute(g) == {Recolour(g, m) : m \in Shuffles(Colours(g))}

\* apply_combo: the grids it can return.
apply_combo(g, ops, permute_colors) ==
  IF permute_colors THEN color_permute(Geometric(g, ops)) ELSE {Geometric(g, ops)}

\* augment_pair: the pairs it can return.
augment_pair(inp, out, ops, permute_colors) ==
  apply_combo(inp, ops, permute_colors) \X apply_combo(out, ops, permute_colors)

\* random.sample(ops_names, k) for k = random.randint(1, min(3, len(ops_names))).
RECURSIVE Samples(_, _)
Samples(names, k) ==
  IF k = 0 THEN {<<>>}
  ELSE UNION {{Append(s, n) : n \in names \ {s[i] : i \in 1..Len(s)}} : s \in Samples(names, k - 1)}

MaxOps == 3
OpsDrawn == UNION {Samples({TRANSFORMS[i] : i \in 1..Len(TRANSFORMS)}, k) : k \in 1..MaxOps}

\* Tasks: the training pairs, the test input and the test output.
AugmentTasks ==
  {[train_pairs |-> << <<(<<<<1, 2>>>>), (<<<<2, 1>>>>)>> >>,
    test_in |-> <<<<1, 0>>, <<0, 2>>>>, test_out |-> <<<<1, 2>>, <<0, 0>>>>],
   [train_pairs |-> << <<(<<<<1, 1>>>>), (<<<<1, 2>>, <<2, 0>>>>)>> >>,
    test_in |-> <<<<3>>>>, test_out |-> <<<<0>>, <<3>>>>],
   [train_pairs |-> << <<(<<<<0, 1, 2>>>>), (<<<<3, 1, 2>>>>)>> >>,
    test_in |-> <<<<2, 2>>>>, test_out |-> <<<<2>>>>]}

AugmentInputs ==
  {[kind |-> "task", task |-> t, permute_colors |-> p] : t \in AugmentTasks, p \in BOOLEAN}

InitAugment == Quiet /\ input \in AugmentInputs /\ output = NotRun

\* The sequences that take each element from the set at its place.
RECURSIVE Choices(_)
Choices(sets) ==
  IF sets = <<>> THEN {<<>>}
  ELSE {<<h>> \o t : h \in Head(sets), t \in Choices(Tail(sets))}

\* One pass of the inner loop of main for a task: the operations are drawn,
\* then every training pair and the test pair are augmented with them.
AugmentExample ==
  /\ input.kind = "task"
  /\ output = NotRun
  /\ \E ops \in OpsDrawn :
       \E aug_train \in Choices([i \in 1..Len(input.task.train_pairs) |->
                                   augment_pair(input.task.train_pairs[i][1],
                                                input.task.train_pairs[i][2],
                                                ops, input.permute_colors)]) :
         \E aug_test \in augment_pair(input.task.test_in, input.task.test_out, ops,
                                      input.permute_colors) :
           output' = [exc |-> "none", ops |-> ops, aug_train |-> aug_train,
                      aug_test_in |-> aug_test[1], aug_test_out |-> aug_test[2]]
  /\ UNCHANGED <<pipelineVars, eval, runner, input>>

NextAugment == AugmentExample

SpecAugment == InitAugment /\ [][NextAugment]_vars

\* ------------------------------------------------- runs one after another
\* One engine used for several runs one after the other, with clear_history
\* between them and a completion service that comes and goes; no snapshot
\* exists at the start, the disk stays writable and the clock stands.
InitSequence ==
  /\ QuietPipeline
  /\ input = <<>>
  /\ output = NotRun
  /\ eval = EvalIdle
  /\ runner = RunnerIdle

NextSequence ==
  \/ ServiceFlip
  \/ Construct(1)
  \/ \E r \in Runs : StartRunWithin(r, 1, MaxSequentialRuns)
  \/ \E r \in Runs : Perspective(r)
  \/ \E r \in Runs : Hypothesis(r)
  \/ \E r \in Runs : Simulate(r)
  \/ \E r \in Runs : DualAnswers(r)
  \/ \E r \in Runs : AbstractRules(r)
  \/ \E r \in Runs : Finish(r)
  \/ ClearHistory(1)

SpecSequence == InitSequence /\ [][NextSequence]_vars

\* ------------------------------------------------- two engine instances
\* Two engines are constructed over the same snapshot file (absent, or
\* saved earlier) before any run starts; then runs follow, on either
\* engine, while the clock advances.  The disk stays writable and the
\* completion service up.
InitInstances ==
  /\ Init
  /\ QuietPipeline \/ snapshot # NoFile

NextInstances ==
  \/ Tick
  \/ \E e \in Engines : started = 0 /\ Construct(e)
  \/ \E r \in Runs : \E e \in Engines :
       /\ \A other \in Engines : constructed[other]
       /\ StartRunWithin(r, e, MaxSequentialRuns)
  \/ \E r \in Runs : Perspective(r)
  \/ \E r \in Runs : Hypothesis(r)
  \/ \E r \in Runs : Simulate(r)
  \/ \E r \in Runs : DualAnswers(r)
  \/ \E r \in Runs : AbstractRules(r)
  \/ \E r \in Runs : Finish(r)

SpecInstances == InitInstances /\ [][NextInstances]_vars

\* ------------------------------------------------------------- properties
ResultFields ==
  {"problem", "context", "timestamp", "character_thoughts", "hypotheses", "dual_answers",
   "new_rules_learned", "total_rules", "reasoning_steps"}

StagePositions == {"idle", "perspectives", "hypotheses", "simulate", "dual", "rules", "returned"}

\* C1: whichever completion calls fail, and also when the snapshot cannot be
\* written, solve_problem never raises: a call is always at one of its
\* stages or has returned, and what it returns has exactly the nine fields
\* problem, context, timestamp, character_thoughts, hypotheses,
\* dual_answers, new_rules_learned, total_rules and reasoning_steps.
SolveProblemReturnsNineFields ==
  \A r \in Runs :
    /\ frame[r].pc \in StagePositions
    /\ frame[r].pc = "returned" => DOMAIN frame[r].result = ResultFields

\* A call has returned although each of its nine completion calls failed
\* and the snapshot could not be written.
EveryCallAndTheSaveFailed ==
  \E r \in Runs :
    /\ frame[r].pc = "returned"
    /\ Len(frame[r].calls) = Len(Characters) + 4
    /\ \A i \in DOMAIN frame[r].calls : frame[r].calls[i].exc # "none"
    /\ frame[r].save_log = "could_not_save"
    /\ DOMAIN frame[r].result = ResultFields

DualCallFailed(r) ==
  \E i \in DOMAIN frame[r].calls :
    frame[r].calls[i].stage = "dual" /\ frame[r].calls[i].exc # "none"

\* C2: when the completion call of stage 4 raises, the dual_answers of the
\* returned result has both confidences 0.0 and each of its four texts
\* contains 'Error'.
FailedDualCallGivesErrorBundle ==
  \A r \in Runs :
    frame[r].pc = "returned" /\ DualCallFailed(r) =>
      LET d == frame[r].result.dual_answers
      IN  /\ d.primary_confidence = 0
          /\ d.alternative_confidence = 0
          /\ \A k \in {"primary_answer", "alternative_answer", "reasoning_comparison",
                       "recommended_answer"} : Contains(d[k], <<"E", "r", "r", "o", "r">>)

\* A call has returned whose stage 4 failed while its stage 5 call answered.
ReturnedAfterFailedDualCall ==
  \E r \in Runs :
    /\ frame[r].pc = "returned"
    /\ DualCallFailed(r)
    /\ frame[r].calls[Len(frame[r].calls)].exc = "none"
    /\ frame[r].result.dual_answers.primary_confidence = 0

\* C3: when solve_problem returns, the store is the rules held before the
\* run followed by the rules parsed in stage 5, total_rules is the size of
\* the store before the run plus new_rules_learned, and if the write
\* succeeded the snapshot reads back as the store.
RulesAppendedAndSavedAtReturn ==
  \A r \in Runs :
    frame[r].pc = "returned" =>
      LET e   == frame[r].engine
          res == frame[r].result
      IN  /\ rules[e] = frame[r].rules_at_start \o frame[r].new_rules
          /\ res.new_rules_learned = Len(frame[r].new_rules)
          /\ res.total_rules = Len(frame[r].rules_at_start) + res.new_rules_learned
          /\ frame[r].save_log = "saved" =>
               /\ snapshot.exists
               /\ load_existing_rules(<<>>, snapshot, "ok").rules = rules[e]

\* A call has returned that started with rules in the store, learned new
\* ones and saved them.
ReturnedWithOldAndNewRulesSaved ==
  \E r \in Runs :
    /\ frame[r].pc = "returned"
    /\ frame[r].rules_at_start # <<>>
    /\ frame[r].new_rules # <<>>
    /\ frame[r].save_log = "saved"

\* C4: a fresh engine constructed over a snapshot that was persisted from a
\* list of rules (the disk readable) holds exactly those rules, field for
\* field; so also after load, persist without appending, reload.
PersistThenLoadRoundTrip ==
  [][(Construct(1) /\ last_saved.whole /\ disk # "denied") => rules'[1] = last_saved.rules]_vars

\* A fresh engine has loaded the three rules an earlier run persisted.
FreshEngineLoadedPersistedRules ==
  /\ AllIdle
  /\ constructed[1]
  /\ started = 1
  /\ reasoning_history[1] = <<>>
  /\ load_log[1] = [msg |-> "loaded", count |-> 3]
  /\ last_saved.whole
  /\ rules[1] = last_saved.rules

\* The tokens are a JSON list of objects that each have exactly the eight
\* fields of a rule, with scalar values.
WellFormedRuleList(toks) ==
  LET width == 2 * Cardinality(RuleFields) + 2
  IN  /\ Len(toks) >= 2
      /\ toks[1] = <<"[">>
      /\ toks[Len(toks)] = <<"]">>
      /\ (Len(toks) - 2) % width = 0
      /\ \A b \in 0..((Len(toks) - 2) \div width - 1) :
           LET o == 2 + width * b
           IN  /\ toks[o] = <<"{">>
               /\ toks[o + width - 1] = <<"}">>
               /\ \A j \in 1..Cardinality(RuleFields) :
                    /\ toks[o + 2 * j - 1][1] = "key"
                    /\ toks[o + 2 * j][1] \in {"str", "num"}
               /\ {toks[o + 2 * j - 1][2] : j \in 1..Cardinality(RuleFields)} = RuleFields

\* C5: constructing an engine never raises, and when the snapshot is absent,
\* unreadable or malformed in any part the engine's store is empty: no
\* record of a malformed snapshot is loaded.
LoadNeverRaisesNorLoadsPartially ==
  [][Construct(1) =>
       /\ constructed'[1]
       /\ load_log'[1].msg # "raised"
       /\ (~snapshot.exists \/ disk = "denied" \/ ~WellFormedRuleList(snapshot.text))
            => rules'[1] = <<>>]_vars

\* An engine was constructed over a snapshot whose second record lacks
\* fields, and holds no rule.
ConstructedOverDamagedSnapshot ==
  /\ constructed[1]
  /\ events = 1
  /\ disk = "ok"
  /\ snapshot.exists
  /\ Len(snapshot.text) > 2 * Cardinality(RuleFields) + 4
  /\ ~WellFormedRuleList(snapshot.text)
  /\ load_log[1].msg = "could_not_load"
  /\ rules[1] = <<>>

\* The completion calls of one run, in the order of solve_problem.
ExpectedCalls ==
  [i \in 1..(Len(Characters) + 4) |->
     IF i <= Len(Characters) THEN [stage |-> "perspectives", character |-> Characters[i]]
     ELSE [stage |-> <<"hypotheses", "simulate", "dual", "rules">>[i - Len(Characters)],
           character |-> ""]]

CallsMade(r) ==
  [i \in DOMAIN frame[r].calls |->
     [stage |-> frame[r].calls[i].stage, character |-> frame[r].calls[i].character]]

CallsDue(r) ==
  CASE frame[r].pc = "idle" -> 0
    [] frame[r].pc = "perspectives" -> frame[r].next_char - 1
    [] frame[r].pc = "hypotheses" -> Len(Characters)
    [] frame[r].pc = "simulate" -> Len(Characters) + 1
    [] frame[r].pc = "dual" -> Len(Characters) + 2
    [] frame[r].pc = "rules" -> Len(Characters) + 3
    [] frame[r].pc = "returned" -> Len(Characters) + 4

\* C6: in every run the completion calls are made in stage order, one per
\* character in registry order, then one each for hypotheses, approaches,
\* dual answers and rules; whether or not earlier calls failed no stage is
\* skipped, repeated or re-entered, and the run ends returned, never in a
\* failure state.
StagesRunOnceInOrder ==
  \A r \in Runs :
    /\ frame[r].pc \in StagePositions
    /\ CallsMade(r) = SubSeq(ExpectedCalls, 1, CallsDue(r))

\* A run has returned after all nine calls although its hypothesis call
\* failed and its last call answered.
ReturnedAfterFailedHypothesisCall ==
  \E r \in Runs :
    /\ frame[r].pc = "returned"
    /\ Len(frame[r].calls) = Len(Characters) + 4
    /\ frame[r].calls[Len(Characters) + 1].exc # "none"
    /\ frame[r].calls[Len(Characters) + 4].exc = "none"

\* C7: stage 3 yields two approach texts for any response, both non-empty
\* when the response (trimmed) is non-empty, also when it is one line, and
\* both empty when the response is empty.
TwoNonEmptyApproaches ==
  output # NotRun =>
    /\ output.exc = "none"
    /\ Len(output.value) = 2
    /\ Strip(input.text) # <<>> => output.value[1] # <<>> /\ output.value[2] # <<>>
    /\ input.text = <<>> => output.value[1] = <<>> /\ output.value[2] = <<>>

\* C8: the rule parser is total: for every text it returns a list of
\* complete rule records and never raises.
RuleParserNeverRaises ==
  output # NotRun =>
    /\ output.exc = "none"
    /\ \A i \in DOMAIN output.rules : DOMAIN output.rules[i] = RuleFields

\* C9: from a text of four markers '1.' to '4.', each followed by its own
\* description, pattern and confidence lines, the rule parser returns four
\* records in input order whose description, pattern and confidence are
\* the values written after the colons of those lines.
FourRulesParsedInOrder ==
  input # <<>> /\ input.kind = "four_rules" /\ output # NotRun =>
    /\ output.exc = "none"
    /\ Len(output.rules) = 4
    /\ \A i \in 1..4 :
         /\ output.rules[i].description = RuleValues[input.choice[i]].d
         /\ output.rules[i].pattern = RuleValues[input.choice[i]].p
         /\ output.rules[i].confidence = RuleValues[input.choice[i]].n

\* A four-rule text in bullet style, confidence first, with titled markers
\* and a colon inside a description, has been parsed.
FourBulletRulesParsed ==
  /\ input # <<>>
  /\ input.kind = "four_rules"
  /\ input.style = [marker |-> "titled", labels |-> "bullet", order |-> "cpd"]
  /\ input.choice = <<1, 2, 3, 2>>
  /\ output # NotRun
  /\ Len(output.rules) = 4

\* The six labels in the order the parser tests them.
DualLabelTable ==
  <<[field |-> "primary_answer", label |-> <<"p", "r", "i", "m", "a", "r", "y", " ", "a", "n", "s", "w", "e", "r", ":">>],
    [field |-> "alternative_answer", label |-> <<"a", "l", "t", "e", "r", "n", "a", "t", "i", "v", "e", " ", "a", "n", "s", "w", "e", "r", ":">>],
    [field |-> "primary_confidence", label |-> <<"p", "r", "i", "m", "a", "r", "y", " ", "c", "o", "n", "f", "i", "d", "e", "n", "c", "e", ":">>],
    [field |-> "alternative_confidence", label |-> <<"a", "l", "t", "e", "r", "n", "a", "t", "i", "v", "e", " ", "c", "o", "n", "f", "i", "d", "e", "n", "c", "e", ":">>],
    [field |-> "reasoning_comparison", label |-> <<"r", "e", "a", "s", "o", "n", "i", "n", "g", " ", "c", "o", "m", "p", "a", "r", "i", "s", "o", "n", ":">>],
    [field |-> "recommended_answer", label |-> <<"r", "e", "c", "o", "m", "m", "e", "n", "d", "e", "d", " ", "a", "n", "s", "w", "e", "r", ":">>]>>

\* The field whose label the line matched: the first of the table.
MatchedField(line) ==
  IF \A i \in DOMAIN DualLabelTable : ~Contains(Lower(line), DualLabelTable[i].label) THEN "none"
  ELSE DualLabelTable[CHOOSE i \in DOMAIN DualLabelTable :
                        /\ Contains(Lower(line), DualLabelTable[i].label)
                        /\ \A j \in 1..(i - 1) : ~Contains(Lower(line), DualLabelTable[j].label)].field

\* The trimmed text after the first colon of the line.
TextAfterColon(line) ==
  LET k == CHOOSE i \in DOMAIN line : line[i] = ":" /\ \A j \in 1..(i - 1) : line[j] # ":"
  IN  Strip(SubSeq(line, k + 1, Len(line)))

\* The lines of the text that set the field: they matched its label and,
\* for a confidence, their value is a number.
SettingLines(lines, field) ==
  {i \in DOMAIN lines :
     /\ MatchedField(lines[i]) = field
     /\ IsConfidenceField(field) => float(TextAfterColon(lines[i])).exc = "none"}

\* C10: the dual-answer parser never raises and returns all six fields;
\* each is the trimmed text after the first colon of the last line that
\* matched its label (as a number for a confidence), or its default when no
\* line sets it; a confidence that does not parse leaves the value as it
\* was.
DualParserTotalWithDefaults ==
  input # <<>> /\ input.kind = "dual" /\ output # NotRun =>
    /\ output.exc = "none"
    /\ DOMAIN output.value = DOMAIN DualDefaults
    /\ \A lines \in {Split(input.text, NL)} :
       \A field \in DOMAIN DualDefaults :
       \A setting \in {SettingLines(lines, field)} :
         IF setting = {} THEN output.value[field] = DualDefaults[field]
         ELSE \A last \in {i \in setting : \A j \in setting : j <= i} :
                output.value[field] =
                  IF IsConfidenceField(field) THEN float(TextAfterColon(lines[last])).value
                  ELSE TextAfterColon(lines[last])

\* A text has been parsed in which a confidence that does not parse follows
\* one that does, and a line carries two labels.
DualTextWithBadConfidenceParsed ==
  /\ input # <<>>
  /\ input.kind = "dual"
  /\ input.text = <<"P", "r", "i", "m", "a", "r", "y", " ", "C", "o", "n", "f", "i", "d", "e", "n", "c", "e", ":", " ", "0", ".", "9", "\n", "p", "r", "i", "m", "a", "r", "y", " ", "c", "o", "n", "f", "i", "d", "e", "n", "c", "e", ":", " ", "n", "/", "a", "\n", "a", "l", "t", "e", "r", "n", "a", "t", "i", "v", "e", " ", "a", "n", "s", "w", "e", "r", ":", " ", "a", " ", "(", "p", "r", "i", "m", "a", "r", "y", " ", "a", "n", "s", "w", "e", "r", ":", " ", "b", ")">>
  /\ output # NotRun
  /\ output.value.primary_confidence = 90
  /\ output.value.primary_answer = <<"a", " ", "(", "p", "r", "i", "m", "a", "r", "y", " ", "a", "n", "s", "w", "e", "r", ":", " ", "b", ")">>
  /\ output.value.alternative_answer = DualDefaults.alternative_answer

\* C11: from a text whose only label lines are 'primary answer: X' and
\* 'recommended answer: X', the labels in any letter case, the dual-answer
\* parser returns primary_answer = X and recommended_answer = X and leaves
\* the other four fields at their defaults.
PrimaryAndRecommendedOnly ==
  input # <<>> /\ input.kind = "primary_recommended" /\ output # NotRun =>
    /\ output.exc = "none"
    /\ output.value = [DualDefaults EXCEPT !.primary_answer = input.x,
                                          !.recommended_answer = input.x]

\* A text has been parsed that names the recommended answer first, in
\* capitals, with a line of prose before the primary answer, the answer
\* holding a colon.
RecommendedFirstInCapitalsParsed ==
  /\ input # <<>>
  /\ input.kind = "primary_recommended"
  /\ input.text = <<" ", " ", "R", "E", "C", "O", "M", "M", "E", "N", "D", "E", "D", " ", "A", "N", "S", "W", "E", "R", ":", "a", ":", " ", "b", " ", "\n", "\n", "a", "n", "d", " ", "s", "o", "\n", "P", "r", "i", "m", "a", "r", "y", " ", "A", "n", "s", "w", "e", "r", ":", " ", "a", ":", " ", "b">>
  /\ output # NotRun
  /\ output.value.recommended_answer = <<"a", ":", " ", "b">>
  /\ output.value.primary_answer = <<"a", ":", " ", "b">>
  /\ output.value.alternative_confidence = 70

\* C12: from a text that is not JSON as a whole and that holds a rectangular
\* integer grid written as a JSON array of arrays between prose, parse_grid
\* returns that grid.
EmbeddedGridExtracted ==
  input # <<>> /\ input.kind = "embedded" /\ output # NotRun => output = Some(input.grid)

\* C13: serialising a rectangular grid of at least one row and one column
\* with non-negative integer cells by format_grid and passing the text to
\* parse_grid returns the same grid: same shape, same cells, same order.
GridRoundTrip ==
  input # <<>> /\ input.kind = "grid" /\ output # NotRun =>
    /\ output = Some(input.grid)
    /\ Len(output.grid) = Len(input.grid)
    /\ \A r \in 1..Len(input.grid) :
         /\ Len(output.grid[r]) = Len(input.grid[r])
         /\ \A c \in 1..Len(input.grid[r]) : output.grid[r][c] = input.grid[r][c]

\* A grid of two rows and two columns with a zero, a one-digit and a
\* two-digit cell has been serialised and parsed back.
TwoByTwoGridParsedBack ==
  /\ input # <<>>
  /\ input.kind = "grid"
  /\ input.grid = <<<<12, 0>>, <<7, 7>>>>
  /\ input.text = <<"[", "[", "1", "2", ",", " ", "0", "]", ",", " ", "[", "7", ",", " ", "7", "]", "]">>
  /\ output # NotRun
  /\ output.grid = <<<<12, 0>>, <<7, 7>>>>

\* The example the loop has just counted.
Scored == eval.pc \in {"loop", "done"} /\ eval.position > 0

\* How often grid g occurs in a sequence of grids, and where it occurs first.
Occurrences(gs, g) == Cardinality({i \in 1..Len(gs) : gs[i] = g})
FirstOccurrence(gs, g) == CHOOSE i \in 1..Len(gs) : gs[i] = g /\ \A j \in 1..(i - 1) : gs[j] # g

\* C14: when at least one sample of an example parsed, the selected
\* candidate is one of the parsed grids, no parsed grid occurs more often
\* among them, and every other grid that occurs as often occurs first at a
\* later sample.
MajorityVoteTakesEarliestModalGrid ==
  Scored /\ eval.parsed # <<>> =>
    /\ ~eval.pred.none
    /\ \E i \in 1..Len(eval.parsed) : eval.parsed[i] = eval.pred.grid
    /\ \A i \in 1..Len(eval.parsed) :
         \/ eval.parsed[i] = eval.pred.grid
         \/ Occurrences(eval.parsed, eval.parsed[i]) < Occurrences(eval.parsed, eval.pred.grid)
         \/ /\ Occurrences(eval.parsed, eval.parsed[i]) = Occurrences(eval.parsed, eval.pred.grid)
            /\ FirstOccurrence(eval.parsed, eval.pred.grid) < i

\* Four samples parsed, two grids with two samples each; the grid of the
\* first sample was selected although the other reached two samples first.
TieGoesToFirstSeenGrid ==
  /\ Scored
  /\ eval.texts = <<key(GridB), format_grid(GridA), key(GridA), key(GridB)>>
  /\ eval.parsed = <<GridB, GridA, GridA, GridB>>
  /\ eval.pred = Some(GridB)

\* C15: the vote is taken over the samples that parse, in their order (the
\* empty text of a failed call and every other unparseable text are left
\* out); when none parses the candidate is absent, the example adds one to
\* the total and nothing to the correct count; correct never exceeds total,
\* and total is the number of examples counted.
UnparseableSamplesDiscarded ==
  [][/\ eval'.stats.correct <= eval'.stats.total
     /\ eval'.pc \in {"loop", "done"} => eval'.stats.total = eval'.position
     /\ eval.pc = "sampling" /\ eval'.pc = "loop" =>
          \A grids \in {[j \in 1..Len(eval.texts) |-> parse_grid(eval.texts[j])]} :
            \A kept \in {SelectSeq([j \in 1..Len(grids) |-> j], LAMBDA j : ~grids[j].none)} :
              /\ \A j \in 1..Len(grids) : eval.texts[j] = <<>> => grids[j].none
              /\ eval'.parsed = [i \in 1..Len(kept) |-> grids[kept[i]].grid]
              /\ eval'.stats.total = eval.stats.total + 1
              /\ kept # <<>> => ~eval'.pred.none /\ \E i \in 1..Len(kept) : eval'.pred.grid = grids[kept[i]].grid
              /\ kept = <<>> =>
                    /\ eval'.pred = None
                    /\ eval'.stats.correct = eval.stats.correct]_vars

\* The second example was counted with no parseable sample, one of them the
\* empty text of a failed call, after the first had been counted correct.
ExampleWithoutParseableSampleCounted ==
  /\ Scored
  /\ eval.position = 2
  /\ Len(eval.texts) = 2
  /\ eval.texts[1] = <<>>
  /\ eval.texts[2] = <<"n", "o", " ", "g", "r", "i", "d", " ", "h", "e", "r", "e">>
  /\ eval.parsed = <<>>
  /\ eval.pred = None
  /\ eval.stats = [total |-> 2, correct |-> 1]

\* The cell of grid g at a position of the padded area, 0 outside the grid.
CellOrZero(g, r, c) == IF r <= Len(g) /\ c <= Len(g[r]) THEN g[r][c] ELSE 0

\* C16: for two rectangular grids calculate_accuracy returns the number of
\* positions, in the area of (the larger row count) x (the larger column
\* count), at which the grids padded with 0 agree, divided by that area;
\* the grid [[1,2],[3,4]] against the candidate [[1,2]] gives 2/4.
PaddedAccuracy ==
  /\ input # <<>> /\ input.kind = "accuracy" /\ output # NotRun
       /\ IsArray2D(input.predicted) /\ IsArray2D(input.expected) =>
       \A rows \in {Max(Len(input.predicted), Len(input.expected))} :
         \A cols \in {Max(Len(input.predicted[1]), Len(input.expected[1]))} :
           /\ output.exc = "none"
           /\ output.value.den = rows * cols
           /\ output.value.num =
                Cardinality({rc \in (1..rows) \X (1..cols) :
                   CellOrZero(input.predicted, rc[1], rc[2]) = CellOrZero(input.expected, rc[1], rc[2])})
  /\ input # <<>> /\ input.kind = "accuracy" /\ output # NotRun
       /\ input.predicted = <<<<1, 2>>>> /\ input.expected = <<<<1, 2>>, <<3, 4>>>> =>
       2 * output.value.num = output.value.den

\* The accuracy of a candidate with fewer rows and more columns than the
\* correct grid has been computed: five of the six padded positions agree.
AccuracyOfDifferentShapesComputed ==
  /\ input # <<>>
  /\ input.kind = "accuracy"
  /\ input.predicted = <<<<3, 0>>, <<0, 0>>>>
  /\ input.expected = <<<<3>>, <<0>>, <<3>>>>
  /\ output # NotRun
  /\ output.value = Quotient(5, 6)

\* C17: the rule_ids of the rules an engine holds are pairwise different,
\* after any sequence of runs and reloads, however close in time.
RuleIdsUnique ==
  \A e \in Engines :
    \A i, j \in 1..Len(rules[e]) : i # j => rules[e][i].rule_id # rules[e][j].rule_id

\* C18: the step_ids an engine has given out since its construction are
\* pairwise different, over any sequence of runs and clear_history calls,
\* the steps recorded before a clear included.
StepIdsUnique ==
  \A e \in Engines :
    \A i, j \in 1..Len(issued[e]) : i # j => issued[e][i] # issued[e][j]

\* C19: both confidences of a parsed dual answer lie between 0.0 and 1.0;
\* a number outside that range in the text does not reach the field.
ConfidencesWithinUnitInterval ==
  input # <<>> /\ input.kind = "dual" /\ output # NotRun =>
    /\ output.value.primary_confidence \in 0..100
    /\ output.value.alternative_confidence \in 0..100

\* The steps the run in frame r has appended so far.
StepsDone(r) ==
  IF frame[r].pc = "perspectives" THEN frame[r].next_char - 1 ELSE Len(Characters)

\* C20: a run appends one ReasoningStep per character, in the order of the
\* registry, each holding the character's thought or, when its call failed,
\* the failure placeholder; the character_thoughts of the result hold one
\* entry per character in the same order; and reasoning_steps is the length
\* of the history before the run plus the number of characters.
OneStepPerCharacterInOrder ==
  \A r \in Runs :
    frame[r].pc \notin {"idle", "raised"} =>
      \A e \in {frame[r].engine} : \A fr \in {frame[r]} : \A history \in {reasoning_history[e]} :
        /\ Len(history) = fr.steps_at_start + StepsDone(r)
        /\ Len(fr.character_thoughts) = StepsDone(r)
        /\ \A i \in 1..StepsDone(r) :
             /\ history[fr.steps_at_start + i].character = Characters[i]
             /\ fr.character_thoughts[i] = <<Characters[i], history[fr.steps_at_start + i].thought>>
             /\ fr.calls[i].character = Characters[i]
             /\ IF fr.calls[i].exc = "none"
                  THEN history[fr.steps_at_start + i].thought \in ThoughtResponses
                  ELSE history[fr.steps_at_start + i].thought =
                         "Error in " \o CharacterName[Characters[i]] \o "'s analysis: " \o ExceptionText
        /\ fr.pc = "returned" =>
             /\ Len(fr.result.character_thoughts) = Len(Characters)
             /\ \A i \in 1..Len(Characters) : fr.result.character_thoughts[i][1] = Characters[i]
             /\ fr.result.character_thoughts = fr.character_thoughts
             /\ fr.result.reasoning_steps = fr.steps_at_start + Len(Characters)

\* A second run on a history of five steps has returned; the call for its
\* first character answered and the call for its second failed.
SecondRunReturnedWithPlaceholder ==
  \E r \in Runs :
    /\ frame[r].pc = "returned"
    /\ frame[r].steps_at_start = Len(Characters)
    /\ frame[r].calls[1].exc = "none"
    /\ frame[r].calls[2].exc # "none"
    /\ Len(reasoning_history[frame[r].engine]) = 2 * Len(Characters)
    /\ reasoning_history[frame[r].engine][7].thought = "Error in Aristotle's analysis: Connection error."
    /\ frame[r].result.reasoning_steps = 10

\* The two approaches are the first floor(n/2) and the remaining lines of
\* the n lines of text, in order and unaltered, and when floor(n/2) >= 1
\* their join by a newline is text.
PartitionOf(text, approaches) ==
  \A lines \in {Split(text, NL)} : \A mid \in {Len(Split(text, NL)) \div 2} :
    /\ Len(approaches) = 2
    /\ approaches[1] = Join(SubSeq(lines, 1, mid), NL)
    /\ approaches[2] = Join(SubSeq(lines, mid + 1, Len(lines)), NL)
    /\ mid >= 1 =>
         /\ Len(Split(approaches[1], NL)) = mid
         /\ Len(Split(approaches[2], NL)) = Len(lines) - mid
         /\ Split(approaches[1], NL) \o Split(approaches[2], NL) = lines
         /\ approaches[1] \o <<NL>> \o approaches[2] = text
    /\ mid = 0 => approaches[1] = <<>> /\ approaches[2] = text

\* C21 as stated: the stage-3 split partitions the lines of the response.
SplitPartitionsResponse ==
  input # <<>> /\ input.kind = "approaches" /\ output # NotRun =>
    PartitionOf(input.text, output.value)

\* C21: the stage-3 split partitions the lines of the response with the
\* whitespace at its two ends removed: approach 1 is the first floor(n/2) of
\* its n lines, approach 2 the rest, in order, none dropped, duplicated or
\* altered, and when floor(n/2) >= 1 their join by a newline is that text.
SplitPartitionsTrimmedResponse ==
  input # <<>> /\ input.kind = "approaches" /\ output # NotRun =>
    PartitionOf(Strip(input.text), output.value)

\* A response of three lines, the second empty, with a blank before the
\* first and a line of one blank after the last, has been split.
PaddedResponseSplit ==
  /\ input # <<>>
  /\ input.kind = "approaches"
  /\ input.text = <<" ", "i", "n", "t", "u", "i", "t", "i", "v", "e", " ", "\n", "\n", "s", "y", "s", "t", "e", "m", "a", "t", "i", "c", "\n", " ">>
  /\ output # NotRun
  /\ output.value = <<<<"i", "n", "t", "u", "i", "t", "i", "v", "e", " ">>, <<"\n", "s", "y", "s", "t", "e", "m", "a", "t", "i", "c">>>>

\* The lines of a text, each trimmed.
TrimmedLines(text) == [i \in 1..Len(Split(text, NL)) |-> Strip(Split(text, NL)[i])]

\* A trimmed line that starts with '1.', '2.', '3.' or '4.', and one that
\* starts with another enumerator.
BeginsRecord(line) == Len(line) >= 2 /\ line[1] \in {"1", "2", "3", "4"} /\ line[2] = "."
OtherEnumerator(line) ==
  Len(line) >= 2 /\ line[1] \in {"5", "6", "7", "8", "9"} /\ line[2] = "."

\* The one field a line that begins no record can set, by the precedence
\* description > pattern/rule > confidence.
FieldOfLine(line) ==
  IF Contains(Lower(line), <<"d", "e", "s", "c", "r", "i", "p", "t", "i", "o", "n", ":">>) THEN "description"
  ELSE IF Contains(Lower(line), <<"p", "a", "t", "t", "e", "r", "n", ":">>) \/ Contains(Lower(line), <<"r", "u", "l", "e", ":">>) THEN "pattern"
  ELSE IF Contains(Lower(line), <<"c", "o", "n", "f", "i", "d", "e", "n", "c", "e", ":">>) THEN "confidence"
  ELSE "none"

\* The positions of the lines that begin a record, the k-th of them, and
\* the last line of the k-th record.
RecordStarts(ls) == {i \in 1..Len(ls) : BeginsRecord(ls[i])}
RecordStart(ls, k) ==
  CHOOSE i \in RecordStarts(ls) : Cardinality({j \in RecordStarts(ls) : j < i}) = k - 1
RecordEnd(ls, k) ==
  IF k = Cardinality(RecordStarts(ls)) THEN Len(ls) ELSE RecordStart(ls, k + 1) - 1

\* No line before the first record (no line at all, when there is no
\* record) carries a label.
NoLabelBeforeFirstRecord(ls) ==
  \A i \in 1..Len(ls) : (\A j \in RecordStarts(ls) : i < j) => FieldOfLine(ls[i]) = "none"

\* C22: for a text with no label line before its first marker line, the
\* rule parser returns one record per line whose trimmed text starts with
\* '1.', '2.', '3.' or '4.', numbered in that order; a line that starts with
\* another enumerator begins no record, and its labelled field is that of
\* the record open at that line unless a later line of the record sets it.
RecordsBeginAtTheFourMarkers ==
  input # <<>> /\ output # NotRun =>
    \A ls \in {TrimmedLines(input.text)} :
      NoLabelBeforeFirstRecord(ls) =>
        /\ output.exc = "none"
        /\ Len(output.rules) = Cardinality(RecordStarts(ls))
        /\ \A k \in 1..Len(output.rules) : output.rules[k].rule_id[2] = k - 1
        /\ \A k \in 1..Cardinality(RecordStarts(ls)) :
             \A i \in (RecordStart(ls, k) + 1)..RecordEnd(ls, k) :
               /\ OtherEnumerator(ls[i])
               /\ FieldOfLine(ls[i]) \in {"description", "pattern"}
               /\ \A j \in (i + 1)..RecordEnd(ls, k) : FieldOfLine(ls[j]) # FieldOfLine(ls[i])
               => output.rules[k][FieldOfLine(ls[i])] = AfterFirstColon(ls[i])

\* A text of a marker, a description line and a line '5. description: more'
\* has been parsed into one record, whose description is that of the last.
FifthEnumeratorFoldedIntoOpenRecord ==
  /\ input # <<>>
  /\ input.kind = "records"
  /\ input.text = <<"3", ".", "\n", "D", "e", "s", "c", "r", "i", "p", "t", "i", "o", "n", ":", " ", "m", "i", "r", "r", "o", "r", "\n", "5", ".", " ", "d", "e", "s", "c", "r", "i", "p", "t", "i", "o", "n", ":", " ", "m", "o", "r", "e">>
  /\ output # NotRun
  /\ Len(output.rules) = 1
  /\ output.rules[1].description = <<"m", "o", "r", "e">>

\* The last line of record k that sets field f, 0 when there is none.
LastSetting(ls, k, f) ==
  IF \A i \in (RecordStart(ls, k) + 1)..RecordEnd(ls, k) : FieldOfLine(ls[i]) # f THEN 0
  ELSE CHOOSE i \in (RecordStart(ls, k) + 1)..RecordEnd(ls, k) :
         /\ FieldOfLine(ls[i]) = f
         /\ \A j \in (i + 1)..RecordEnd(ls, k) : FieldOfLine(ls[j]) # f

\* C26: what a marker line carries after its marker is not captured: the
\* description and pattern of a record are '' and its confidence 0.8 unless
\* a later line of the record that is no marker sets them, and each such
\* line sets at most the one field chosen by the precedence description >
\* pattern/rule > confidence (a confidence that is no number sets nothing).
MarkerLineLabelsIgnored ==
  input # <<>> /\ output # NotRun =>
    \A ls \in {TrimmedLines(input.text)} :
      NoLabelBeforeFirstRecord(ls) =>
        /\ Len(output.rules) = Cardinality(RecordStarts(ls))
        /\ \A k \in 1..Cardinality(RecordStarts(ls)) :
             /\ \A f \in {"description", "pattern"} :
                  \A last \in {LastSetting(ls, k, f)} :
                    output.rules[k][f] = IF last = 0 THEN <<>> ELSE AfterFirstColon(ls[last])
             /\ \A numbers \in {{i \in (RecordStart(ls, k) + 1)..RecordEnd(ls, k) :
                                    /\ FieldOfLine(ls[i]) = "confidence"
                                    /\ float(AfterFirstColon(ls[i])).exc = "none"}} :
                  output.rules[k].confidence =
                    IF numbers = {} THEN 80
                    ELSE float(AfterFirstColon(ls[CHOOSE i \in numbers : \A j \in numbers : j <= i])).value

\* The text '1. Description: X' followed by a line with a rule label and a
\* confidence label has been parsed: one record, its description empty, its
\* pattern the text after the first colon, its confidence the default.
LabelOnMarkerLineNotCaptured ==
  /\ input # <<>>
  /\ input.kind = "records"
  /\ input.text = <<"1", ".", " ", "D", "e", "s", "c", "r", "i", "p", "t", "i", "o", "n", ":", " ", "X", "\n", "R", "u", "l", "e", ":", " ", "r", ",", " ", "c", "o", "n", "f", "i", "d", "e", "n", "c", "e", ":", " ", "0", ".", "5">>
  /\ output # NotRun
  /\ Len(output.rules) = 1
  /\ output.rules[1].description = <<>>
  /\ output.rules[1].pattern = <<"r", ",", " ", "c", "o", "n", "f", "i", "d", "e", "n", "c", "e", ":", " ", "0", ".", "5">>
  /\ output.rules[1].confidence = 80

\* Engine e is replaced by a newly constructed one in this step.
Replaced(e) == issued[e] # <<>> /\ issued'[e] = <<>>

\* C23: on one engine every step either leaves the steps of the reasoning
\* history in place, appending at most, or is clear_history, which empties
\* the history and leaves the rule store and the snapshot file as they were.
HistoryAppendOnlyBetweenClears ==
  [][\A e \in Engines :
       \/ Replaced(e)
       \/ /\ Len(reasoning_history'[e]) >= Len(reasoning_history[e])
          /\ SubSeq(reasoning_history'[e], 1, Len(reasoning_history[e])) = reasoning_history[e]
       \/ /\ reasoning_history'[e] = <<>>
          /\ rules'[e] = rules[e]
          /\ snapshot' = snapshot
          /\ last_saved' = last_saved]_vars

\* An engine that learned rules and saved them has had its history cleared
\* and has appended to it again in a later run.
HistoryGrownAgainAfterClear ==
  /\ reasoning_history[1] # <<>>
  /\ Len(issued[1]) > Len(reasoning_history[1])
  /\ rules[1] # <<>>
  /\ snapshot.exists

\* The first call on an engine that was constructed over a snapshot which
\* existed and could not be loaded has returned.
ReturnedAfterFailedLoad(r) ==
  /\ frame[r].pc = "returned"
  /\ load_log[frame[r].engine].msg = "could_not_load"
  /\ Len(issued[frame[r].engine]) = Len(Characters)

\* C25 as stated: whenever a run completes on an engine whose snapshot
\* existed and failed to load, the snapshot holds only the rules learned
\* since construction.
FailedLoadSnapshotOverwritten ==
  \A r \in Runs :
    ReturnedAfterFailedLoad(r) =>
      /\ frame[r].rules_at_start = <<>>
      /\ snapshot = FileOf(json_dump(frame[r].new_rules))

\* C25: when a run completes on an engine whose snapshot existed and failed
\* to load, and the write of the snapshot succeeds, the snapshot holds only
\* the rules learned since construction (the empty list when the
\* abstraction failed), and what it held before is gone.
FailedLoadSnapshotOverwrittenWhenWritten ==
  \A r \in Runs :
    ReturnedAfterFailedLoad(r) /\ frame[r].save_log = "saved" =>
      /\ frame[r].rules_at_start = <<>>
      /\ rules[frame[r].engine] = frame[r].new_rules
      /\ snapshot = FileOf(json_dump(frame[r].new_rules))
      /\ snapshot \notin DamagedSnapshots
      /\ load_existing_rules(<<>>, snapshot, "ok").rules = frame[r].new_rules

\* A run that learned no rule has completed on an engine whose snapshot
\* had failed to load, and the snapshot is the empty list.
UnloadedSnapshotReplacedByEmptyList ==
  \E r \in Runs :
    /\ ReturnedAfterFailedLoad(r)
    /\ frame[r].save_log = "saved"
    /\ frame[r].new_rules = <<>>
    /\ snapshot = FileOf(<<(<<"[">>), (<<"]">>)>>)

\* The rules engine e has learned since it loaded `loaded` rules.
LearnedBy(e, loaded) == SubSeq(rules[e], Len(loaded) + 1, Len(rules[e]))

\* C24: two engines have loaded the same snapshot before either persisted;
\* when the first run of one returns after a run of the other that learned
\* rules, neither run has reported an error, and the snapshot is the rules
\* initially loaded followed by the rules of the engine that persisted
\* last, without the rules of the other.
LostUpdateAcrossInstances ==
  \A r \in Runs :
    /\ frame[r].pc # "raised"
    /\ \A e \in Engines : \A o \in Engines \ {e} :
         /\ frame[r].pc = "returned"
         /\ frame[r].engine = e
         /\ Len(issued[e]) = Len(Characters)
         /\ issued[o] # <<>>
         => \A loaded \in {frame[r].rules_at_start} :
              /\ frame[r].save_log = "saved"
              /\ snapshot = FileOf(json_dump(loaded \o frame[r].new_rules))
              /\ SubSeq(rules[o], 1, Len(loaded)) = loaded
              /\ LearnedBy(o, loaded) # <<>> /\ frame[r].new_rules # <<>> =>
                   /\ snapshot # FileOf(json_dump(loaded \o LearnedBy(o, loaded) \o frame[r].new_rules))
                   /\ snapshot # FileOf(json_dump(loaded \o frame[r].new_rules \o LearnedBy(o, loaded)))
                   /\ Len(load_existing_rules(<<>>, snapshot, "ok").rules)
                        < Len(loaded) + Len(LearnedBy(o, loaded)) + Len(frame[r].new_rules)

\* Both engines loaded the seed rule; engine 1 learned two rules and saved
\* them, then engine 2 learned two rules at a later time and saved: the
\* snapshot holds three rules, none of them learned by engine 1.
SecondInstanceOverwroteFirst ==
  \E r \in Runs :
    /\ frame[r].pc = "returned"
    /\ frame[r].engine = 2
    /\ frame[r].rules_at_start = <<SeedRule>>
    /\ Len(frame[r].new_rules) = 2
    /\ Len(rules[1]) = 3
    /\ rules[1][2] # frame[r].new_rules[1]
    /\ Len(load_existing_rules(<<>>, snapshot, "ok").rules) = 3
    /\ \A i \in 1..3 : load_existing_rules(<<>>, snapshot, "ok").rules[i] # rules[1][2]

\* The value the statement gives a token: its number when it is all
\* decimal digits, 0 otherwise.
TokenValue(word) == IF word # <<>> /\ AllDigits(word) THEN DecimalValue(word) ELSE 0

\* A token made of digit characters of which one is no decimal digit.
RefusedByInt(word) ==
  /\ word # <<>>
  /\ \A i \in 1..Len(word) : word[i] \in (DOMAIN DigitValue) \cup {SuperscriptTwo}
  /\ \E i \in 1..Len(word) : word[i] = SuperscriptTwo

\* The grid of a text: one row per line that holds a token, each token its
\* number or 0.
IsGridOfTokens(grid, text) ==
  \A lines \in {SelectSeq(Split(text, NL), LAMBDA line : Strip(line) # <<>>)} :
    /\ Len(grid) = Len(lines)
    /\ \A i \in 1..Len(lines) :
         grid[i] = [j \in 1..Len(split(lines[i])) |-> TokenValue(split(lines[i])[j])]

\* The placeholders a failed stage 4 and the dual-answer parser leave as
\* the primary answer.
IsPlaceholderAnswer(text) ==
  text \in {<<"E", "r", "r", "o", "r", " ", "g", "e", "n", "e", "r", "a", "t", "i", "n", "g", " ", "p", "r", "i", "m", "a", "r", "y", " ", "a", "n", "s", "w", "e", "r">>, <<"P", "r", "i", "m", "a", "r", "y", " ", "a", "n", "s", "w", "e", "r", " ", "n", "o", "t", " ", "f", "o", "u", "n", "d">>}

\* C27 as stated: parse_grid_response returns a grid for every text that
\* holds a token and absence only for a text that is empty or all
\* whitespace, and a task whose primary answer is a placeholder is
\* reported completed.
GridForEveryTextWithAToken ==
  input # <<>> /\ input.kind = "response" /\ output # NotRun =>
    /\ output.none <=> Strip(input.text) = <<>>
    /\ ~output.none => IsGridOfTokens(output.grid, input.text)
    /\ runner.pc = "solved" /\ IsPlaceholderAnswer(input.text) =>
         runner.results[1].status = "completed"

\* C27: parse_grid_response returns absence for a text that is empty or
\* all whitespace and for a text with a token of digit characters that int
\* refuses, and for every other text the grid of its tokens; a task is
\* reported completed exactly when a grid is returned, so also when the
\* primary answer is a placeholder.
GridUnlessEmptyOrTokenRefused ==
  input # <<>> /\ input.kind = "response" =>
    /\ output # NotRun =>
         /\ output.none <=>
              \/ Strip(input.text) = <<>>
              \/ \E i \in 1..Len(split(input.text)) : RefusedByInt(split(input.text)[i])
         /\ ~output.none => IsGridOfTokens(output.grid, input.text)
    /\ runner.pc = "solved" =>
         /\ runner.results[1].status =
              IF parse_grid_response(input.text).none THEN "failed" ELSE "completed"
         /\ IsPlaceholderAnswer(input.text) => runner.results[1].status = "completed"
         /\ output # NotRun => (runner.results[1].status = "completed" <=> ~output.none)

\* The placeholder of a failed stage 4 has been parsed into a row of four
\* zeros and the task whose primary answer it is has been reported
\* completed.
PlaceholderAnswerReportedCompleted ==
  /\ input # <<>>
  /\ input.kind = "response"
  /\ input.text = <<"E", "r", "r", "o", "r", " ", "g", "e", "n", "e", "r", "a", "t", "i", "n", "g", " ", "p", "r", "i", "m", "a", "r", "y", " ", "a", "n", "s", "w", "e", "r">>
  /\ output = Some(<<<<0, 0, 0, 0>>>>)
  /\ runner.pc = "solved"
  /\ runner.results[1].status = "completed"
  /\ runner.results[1].predicted_grid = <<<<0, 0, 0, 0>>>>

Statuses == {"completed", "failed", "error", "skipped"}

\* C30: solve_single_task always returns a result, so run_tests holds
\* exactly one result per task it has processed, in order, each with a
\* status among 'completed', 'failed', 'error' and 'skipped'; and in the
\* compiled statistics completed + failed + errors + skipped = total_tasks,
\* the number of tasks run, with completion_rate = completed / total_tasks,
\* 0 when there are no tasks.
OneResultPerTaskAndCountsAddUp ==
  /\ Len(runner.results) = runner.position
  /\ \A i \in 1..Len(runner.results) :
       /\ "status" \in DOMAIN runner.results[i]
       /\ runner.results[i].status \in Statuses
       /\ runner.results[i].task_id = runner.tasks[i][1]
  /\ runner.pc \in {"returned", "raised"} =>
       \A stats \in {runner.statistics} :
         /\ Len(runner.results) = Len(runner.tasks)
         /\ stats.total_tasks = Len(runner.tasks)
         /\ stats.completed + stats.failed + stats.errors + stats.skipped = stats.total_tasks
         /\ stats.completed = Cardinality({i \in 1..Len(runner.results) :
                                            runner.results[i].status = "completed"})
         /\ stats.completion_rate =
              IF stats.total_tasks = 0 THEN Quotient(0, 1)
              ELSE Quotient(stats.completed, stats.total_tasks)

\* run_tests has returned for a file of two tasks, one skipped and one
\* completed: half of the tasks are completed.
TwoTasksOneSkippedOneCompleted ==
  /\ runner.pc = "returned"
  /\ Len(runner.results) = 2
  /\ runner.results[1].status = "skipped"
  /\ runner.results[2].status = "completed"
  /\ runner.statistics.total_tasks = 2
  /\ runner.statistics.skipped = 1
  /\ runner.statistics.completion_rate = Quotient(1, 2)

\* A rectangular grid with at least one cell.
IsGrid(g) == IsArray2D(g) /\ g[1] # <<>>

\* C29: for two grids calculate_accuracy returns 1.0 exactly when the
\* grids padded with 0 to their common area agree in every cell, so also
\* for grids of different shapes that differ only by rows and columns of
\* zeros at the end, such as [[1]] and [[1, 0]]; the score lies between 0
\* and 1 and is the same with the two grids exchanged.
FullScoreIffPaddedEqual ==
  input # <<>> /\ input.kind = "accuracy" /\ output # NotRun
    /\ IsGrid(input.predicted) /\ IsGrid(input.expected) =>
      /\ output.exc = "none"
      /\ output.value.den > 0
      /\ 0 <= output.value.num /\ output.value.num <= output.value.den
      /\ output.value.num = output.value.den <=>
           \A r \in 1..Max(Len(input.predicted), Len(input.expected)) :
             \A c \in 1..Max(Len(input.predicted[1]), Len(input.expected[1])) :
               CellOrZero(input.predicted, r, c) = CellOrZero(input.expected, r, c)
      /\ calculate_accuracy(input.expected, input.predicted).value = output.value
      /\ input.predicted = <<<<1>>>> /\ input.expected = <<<<1, 0>>>> =>
           output.value = Quotient(2, 2)

\* The accuracy of [[1]] against [[1, 0]] has been computed and is 2/2.
TrailingZeroColumnScoredFull ==
  /\ input # <<>>
  /\ input.kind = "accuracy"
  /\ input.predicted = <<<<1>>>>
  /\ input.expected = <<<<1, 0>>>>
  /\ output # NotRun
  /\ output.value.num = 2
  /\ output.value.den = 2

\* Grid a is grid g with its colours other than 0 permuted among themselves.
IsRecolouringOf(a, g) ==
  /\ Len(a) = Len(g)
  /\ \A r \in 1..Len(g) : Len(a[r]) = Len(g[r])
  /\ \E m \in Shuffles(Colours(g)) :
       \A r \in 1..Len(g) : \A c \in 1..Len(g[r]) :
         a[r][c] = IF g[r][c] = 0 THEN 0 ELSE m[g[r][c]]

\* C28: every grid of an augmented pair is the grid it was made from, after
\* the same geometric operations for input and output, with the colours
\* other than 0 permuted among the colours that grid holds: 0 stays 0 and
\* the shape is that of the transformed grid; with permute_colors off it is
\* the transformed grid itself.
PairsRecolouredGridByGrid ==
  input # <<>> /\ input.kind = "task" /\ output # NotRun =>
    \A made \in {<< <<output.aug_test_in, input.task.test_in>>,
                    <<output.aug_test_out, input.task.test_out>> >>
                 \o [i \in 1..Len(output.aug_train) |->
                       <<output.aug_train[i][1], input.task.train_pairs[i][1]>>]
                 \o [i \in 1..Len(output.aug_train) |->
                       <<output.aug_train[i][2], input.task.train_pairs[i][2]>>]} :
      /\ Len(output.aug_train) = Len(input.task.train_pairs)
      /\ \A i \in 1..Len(made) :
           /\ IsRecolouringOf(made[i][1], Geometric(made[i][2], output.ops))
           /\ Colours(made[i][1]) = Colours(made[i][2])
           /\ ~input.permute_colors => made[i][1] = Geometric(made[i][2], output.ops)

\* A test pair has been augmented by a rotation of 180 degrees with colours
\* 1 and 2 exchanged in the input and kept in the output, and the training
\* pair of the same task with its input colours kept.
SameColourMappedDifferentlyInOnePair ==
  /\ input # <<>>
  /\ input.kind = "task"
  /\ input.permute_colors
  /\ input.task.test_in = <<<<1, 0>>, <<0, 2>>>>
  /\ input.task.test_out = <<<<1, 2>>, <<0, 0>>>>
  /\ output # NotRun
  /\ output.ops = <<"rot180">>
  /\ output.aug_test_in = <<<<1, 0>>, <<0, 2>>>>
  /\ output.aug_test_out = <<<<0, 0>>, <<2, 1>>>>
  /\ output.aug_train[1][1] = <<<<2, 1>>>>
====
